---------------------------- MODULE Spec2Model ----------------------------
(***************************************************************************)
(* xr-proxy: the obfuscated frame codec (xr-proto), the server connection  *)
(* handler (xr-server/src/handler.rs) and the client connection handler    *)
(* (xr-client/src/proxy.rs), as state machines over byte streams.          *)
(*                                                                         *)
(* Bytes are the integers 0..255.  A u32 is the record [hi, lo] of its two *)
(* 16-bit halves, because the checker's integers are narrower than 2^32.   *)
(***************************************************************************)
EXTENDS Integers, Sequences, FiniteSets, TLC

\* ------------------------------------------------------------------ bytes

Bit(x, i) == (x \div (2 ^ i)) % 2

\* a ^ b on two bytes, bit by bit
XorBits(a, b) ==
    ((Bit(a, 0) + Bit(b, 0)) % 2)
  + ((Bit(a, 1) + Bit(b, 1)) % 2) * 2
  + ((Bit(a, 2) + Bit(b, 2)) % 2) * 4
  + ((Bit(a, 3) + Bit(b, 3)) % 2) * 8
  + ((Bit(a, 4) + Bit(b, 4)) % 2) * 16
  + ((Bit(a, 5) + Bit(b, 5)) % 2) * 32
  + ((Bit(a, 6) + Bit(b, 6)) % 2) * 64
  + ((Bit(a, 7) + Bit(b, 7)) % 2) * 128

\* the same, tabulated once
XorTable == [a \in 0..255 |-> [b \in 0..255 |-> XorBits(a, b)]]

Xor8(a, b) == XorTable[a][b]

U32(h, l) == [hi |-> h, lo |-> l]

\* u32::wrapping_add of a small non-negative integer
WrappingAdd(x, n) ==
    LET s == x.lo + n
    IN  U32((x.hi + (s \div 65536)) % 65536, s % 65536)

\* u32::to_be_bytes / u32::from_be_bytes
ToBeBytes(x) == << x.hi \div 256, x.hi % 256, x.lo \div 256, x.lo % 256 >>

FromBeBytes(b) == U32(b[1] * 256 + b[2], b[3] * 256 + b[4])

Bit32(x, p) == IF p < 16 THEN Bit(x.lo, p) ELSE Bit(x.hi, p - 16)

SubSeqFrom(s, from) == SubSeq(s, from, Len(s))

\* ------------------------------------------------------------ obfuscation

\* state.wrapping_mul(1664525).wrapping_add(1013904223), in 16-bit limbs
\* (1664525 = 25 * 2^16 + 26125, 1013904223 = 15470 * 2^16 + 62303)
LcgStep(state) ==
    LET p0  == state.lo * 26125
        mhi == ((p0 \div 65536) + state.lo * 25 + state.hi * 26125) % 65536
        mlo == p0 % 65536
        s   == mlo + 62303
    IN  U32((mhi + 15470 + (s \div 65536)) % 65536, s % 65536)

\* state ^= key[i % key.len()] as u32
XorLowByte(state, b) ==
    U32(state.hi, (state.lo \div 256) * 256 + Xor8(state.lo % 256, b))

\* The table loop of Obfuscator::new: n iterations from index i on, giving
\* the state reached and the entries written.  (Each state is bound as a
\* value before the next iteration uses it.)
RECURSIVE SubTableRun(_, _, _, _)
SubTableRun(key, state, i, n) ==
    IF n = 0 THEN [state |-> state, out |-> << >>]
    ELSE CHOOSE r \in UNION
           { { [state |-> rest.state, out |-> << st.hi % 256 >> \o rest.out] :
                 rest \in { SubTableRun(key, st, i + 1, n - 1) } } :
               st \in { XorLowByte(LcgStep(state), key[(i % Len(key)) + 1]) } }
           : TRUE

\* the 256 entries, as 16 runs of 16 iterations
RECURSIVE SubTableFrom(_, _, _)
SubTableFrom(key, state, block) ==
    IF block = 16 THEN << >>
    ELSE CHOOSE t \in
           { r.out \o SubTableFrom(key, r.state, block + 1) :
               r \in { SubTableRun(key, state, block * 16, 16) } } : TRUE

\* Obfuscator::new: the key, the salt, the strategy and the substitution table
Obfuscator(key, salt, strategy) ==
    [key |-> key, salt |-> salt, strategy |-> strategy,
     sub_table |-> SubTableFrom(key, salt, 0)]

\* i + offset as computed in usize on a 64-bit endpoint: the exact sum,
\* kept as [hi, lo] with hi up to 2^16 (a value of 2^32 or more).
IndexSum(i, offset) ==
    LET s == offset.lo + i
    IN  U32(offset.hi + (s \div 65536), s % 65536)

\* j % m for an index j = hi * 2^16 + lo and a small modulus m
IndexMod(j, m) == ((j.hi % m) * (65536 % m) + (j.lo % m)) % m

\* salt.rotate_left(r) & 0xFF
RotlLow8(salt, r) ==
    Bit32(salt, (32 - r) % 32)
  + Bit32(salt, (33 - r) % 32) * 2
  + Bit32(salt, (34 - r) % 32) * 4
  + Bit32(salt, (35 - r) % 32) * 8
  + Bit32(salt, (36 - r) % 32) * 16
  + Bit32(salt, (37 - r) % 32) * 32
  + Bit32(salt, (38 - r) % 32) * 64
  + Bit32(salt, (39 - r) % 32) * 128

\* Obfuscator::modifier.  The low byte of a wrapping product or sum depends
\* only on the low bytes of its operands.
modifier(obf, j) ==
    CASE obf.strategy = "PositionalXorRotate" ->
            ((j.lo % 256) * (obf.salt.lo % 256)) % 256
      [] obf.strategy = "RotatingSalt" ->
            RotlLow8(obf.salt, j.lo % 32)
      [] obf.strategy = "SubstitutionTable" ->
            obf.sub_table[(((j.lo % 256) + (obf.salt.lo % 256)) % 256) + 1]

\* (mutant) the key byte and the modifier are added, not xored
apply_adding(obf, data, offset) ==
    [i \in 1..Len(data) |->
        LET j == IndexSum(i - 1, offset)
        IN  (data[i] + obf.key[IndexMod(j, Len(obf.key)) + 1]
               + modifier(obf, j)) % 256]

\* Obfuscator::apply
apply(obf, data, offset) ==
    [i \in 1..Len(data) |->
        LET j == IndexSum(i - 1, offset)
        IN  Xor8(data[i],
                 Xor8(obf.key[IndexMod(j, Len(obf.key)) + 1], modifier(obf, j)))]

\* The width of usize and the overflow checks are properties of the build:
\* usize has 64 bits on the server's usual targets and 32 bits on 32-bit
\* gateways; an overflowing `+` wraps without overflow checks (the release
\* profile) and panics with them.
Builds == { "usize64", "usize32", "usize32_checked" }

\* i + offset overflows usize
SumOverflows(build, i, offset) ==
    build # "usize64" /\ IndexSum(i, offset).hi >= 65536

\* i + offset as computed in usize by the build (no overflow check)
IndexSumIn(build, i, offset) ==
    IF build = "usize64" THEN IndexSum(i, offset)
    ELSE U32(IndexSum(i, offset).hi % 65536, IndexSum(i, offset).lo)

\* Obfuscator::apply as the build computes it: the buffer, or a panic
apply_in(build, obf, data, offset) ==
    IF build = "usize32_checked"
         /\ \E i \in 1 .. Len(data) : SumOverflows(build, i - 1, offset)
    THEN [tag |-> "panic", buf |-> << >>]
    ELSE [tag |-> "ok",
          buf |-> [i \in 1 .. Len(data) |->
                     \* the singleton binds j once
                     CHOOSE x \in
                       { Xor8(data[i],
                              Xor8(obf.key[IndexMod(j, Len(obf.key)) + 1],
                                   modifier(obf, j))) :
                           j \in { IndexSumIn(build, i - 1, offset) } } : TRUE]]

\* ---------------------------------------------------------------- protocol

NONCE_LEN == 4
HEADER_LEN == 4
MAX_PAYLOAD_LEN == 65535
HEADER_MAGIC_MASK == 224
HEADER_MAGIC == 160

Connect == 1
Data == 2
Close == 3
ConnectAck == 4

Commands == {Connect, Data, Close, ConnectAck}

\* b & HEADER_MAGIC_MASK, the upper three bits
MagicBits(b) == b - (b % 32)

\* (mutant) every low part but 0 is a command
from_byte_any_command(b) ==
    IF MagicBits(b) # HEADER_MAGIC THEN 0 ELSE b % 32

\* Command::from_byte: 0 stands for None
from_byte(b) ==
    IF MagicBits(b) # HEADER_MAGIC THEN 0
    ELSE IF (b % 32) \in Commands THEN b % 32 ELSE 0

\* Command::to_byte
to_byte(command) == HEADER_MAGIC + command

Codec(obfuscator, padding_min, padding_max) ==
    [obfuscator |-> obfuscator, padding_min |-> padding_min,
     padding_max |-> padding_max]

\* the padding lengths encode_frame can draw
PaddingLens(codec) ==
    IF codec.padding_max > codec.padding_min
    THEN codec.padding_min .. codec.padding_max
    ELSE {codec.padding_min}

\* Codec::encode_frame with the rng's draws (nonce, padding bytes) as inputs
encode_frame(codec, command, payload, nonce, padding) ==
    IF Len(payload) > MAX_PAYLOAD_LEN THEN [ok |-> FALSE, wire |-> << >>]
    ELSE
      LET padding_len == Len(padding)
          header == << Len(payload) \div 256, Len(payload) % 256,
                       padding_len, to_byte(command) >>
          obfs_header == apply(codec.obfuscator, header, nonce)
          payload_offset == WrappingAdd(nonce, HEADER_LEN + padding_len)
          obfs_payload == apply(codec.obfuscator, payload, payload_offset)
      IN  [ok |-> TRUE,
           wire |-> ToBeBytes(nonce) \o obfs_header \o padding \o obfs_payload]

\* (mutant) the offset of the payload leaves out the padding
decode_body_unpadded(codec, buf, nonce, header) ==
    LET payload_len == header[1] * 256 + header[2]
        padding_len == header[3]
        command == from_byte(header[4])
        total_len == NONCE_LEN + HEADER_LEN + padding_len + payload_len
        payload_start == NONCE_LEN + HEADER_LEN + padding_len
    IN  IF command = 0 THEN [tag |-> "Err"]
        ELSE IF payload_len > MAX_PAYLOAD_LEN \/ padding_len > 255
             THEN [tag |-> "Err"]
        ELSE IF Len(buf) < total_len THEN [tag |-> "None"]
        ELSE [tag |-> "Some",
              command |-> command,
              payload |-> apply(codec.obfuscator,
                                SubSeq(buf, payload_start + 1,
                                       payload_start + payload_len),
                                WrappingAdd(nonce, HEADER_LEN)),
              consumed |-> total_len]

\* (mutant) the length of the buffer is looked at before the command
decode_body_length_first(codec, buf, nonce, header) ==
    LET payload_len == header[1] * 256 + header[2]
        padding_len == header[3]
        command == from_byte(header[4])
        total_len == NONCE_LEN + HEADER_LEN + padding_len + payload_len
        payload_start == NONCE_LEN + HEADER_LEN + padding_len
    IN  IF Len(buf) < total_len THEN [tag |-> "None"]
        ELSE IF command = 0 THEN [tag |-> "Err"]
        ELSE IF payload_len > MAX_PAYLOAD_LEN \/ padding_len > 255
             THEN [tag |-> "Err"]
        ELSE [tag |-> "Some",
              command |-> command,
              payload |-> apply(codec.obfuscator,
                                SubSeq(buf, payload_start + 1,
                                       payload_start + payload_len),
                                WrappingAdd(nonce, HEADER_LEN + padding_len)),
              consumed |-> total_len]

\* Codec::decode_frame from the de-obfuscated header on (protocol.rs
\* 233-257): "None" (need more data), "Err", or "Some" frame
decode_body(codec, buf, nonce, header) ==
    LET payload_len == header[1] * 256 + header[2]
        padding_len == header[3]
        command == from_byte(header[4])
        total_len == NONCE_LEN + HEADER_LEN + padding_len + payload_len
        payload_start == NONCE_LEN + HEADER_LEN + padding_len
    IN  IF command = 0 THEN [tag |-> "Err"]
        ELSE IF payload_len > MAX_PAYLOAD_LEN \/ padding_len > 255
             THEN [tag |-> "Err"]
        ELSE IF Len(buf) < total_len THEN [tag |-> "None"]
        ELSE [tag |-> "Some",
              command |-> command,
              payload |-> apply(codec.obfuscator,
                                SubSeq(buf, payload_start + 1,
                                       payload_start + payload_len),
                                WrappingAdd(nonce, HEADER_LEN + padding_len)),
              consumed |-> total_len]

\* (mutant) a buffer shorter than nonce and header is an error
decode_frame_short_is_error(codec, buf) ==
    IF Len(buf) < NONCE_LEN + HEADER_LEN THEN [tag |-> "Err"]
    ELSE CHOOSE r \in UNION
           { { decode_body(codec, buf, nonce, header) :
                 header \in { apply(codec.obfuscator,
                                    SubSeq(buf, NONCE_LEN + 1,
                                           NONCE_LEN + HEADER_LEN), nonce) } } :
               nonce \in { FromBeBytes(SubSeq(buf, 1, NONCE_LEN)) } }
           : TRUE

\* Codec::decode_frame.  (The nonce and the header are bound as values, so
\* that they are computed once.)
decode_frame(codec, buf) ==
    IF Len(buf) < NONCE_LEN + HEADER_LEN THEN [tag |-> "None"]
    ELSE CHOOSE r \in UNION
           { { decode_body(codec, buf, nonce, header) :
                 header \in { apply(codec.obfuscator,
                                    SubSeq(buf, NONCE_LEN + 1,
                                           NONCE_LEN + HEADER_LEN), nonce) } } :
               nonce \in { FromBeBytes(SubSeq(buf, 1, NONCE_LEN)) } }
           : TRUE


\* ---------------------------------------------------------- target address

\* String::from_utf8 accepts exactly the well-formed UTF-8 byte sequences
\* (stated position by position: a byte that is not a continuation byte
\* starts a well-formed character, and the byte after that character is not
\* a continuation byte)
Utf8Valid(b) ==
    LET n == Len(b)
        Cont(j) == j <= n /\ b[j] >= 128 /\ b[j] <= 191
        In(j, lo, hi) == j <= n /\ b[j] >= lo /\ b[j] <= hi
        \* the length of the character that starts at i, 0 if there is none
        CharLen(i) ==
            IF b[i] <= 127 THEN 1
            ELSE IF b[i] >= 194 /\ b[i] <= 223
                 THEN IF Cont(i + 1) THEN 2 ELSE 0
            ELSE IF b[i] = 224
                 THEN IF In(i + 1, 160, 191) /\ Cont(i + 2) THEN 3 ELSE 0
            ELSE IF b[i] = 237
                 THEN IF In(i + 1, 128, 159) /\ Cont(i + 2) THEN 3 ELSE 0
            ELSE IF b[i] >= 225 /\ b[i] <= 239
                 THEN IF Cont(i + 1) /\ Cont(i + 2) THEN 3 ELSE 0
            ELSE IF b[i] = 240
                 THEN IF In(i + 1, 144, 191) /\ Cont(i + 2) /\ Cont(i + 3)
                      THEN 4 ELSE 0
            ELSE IF b[i] >= 241 /\ b[i] <= 243
                 THEN IF Cont(i + 1) /\ Cont(i + 2) /\ Cont(i + 3)
                      THEN 4 ELSE 0
            ELSE IF b[i] = 244
                 THEN IF In(i + 1, 128, 143) /\ Cont(i + 2) /\ Cont(i + 3)
                      THEN 4 ELSE 0
            ELSE 0
    IN  \A i \in 1 .. n :
          IF Cont(i) THEN i > 1
          ELSE \E k \in { CharLen(i) } : k > 0 /\ ~ Cont(i + k)

\* TargetAddr values: Ip(V4), Ip(V6) and Domain, with the bytes they carry
IpV4(octets, port) == [kind |-> "V4", host |-> octets, port |-> port]
IpV6(octets, port) == [kind |-> "V6", host |-> octets, port |-> port]
Domain(name, port) == [kind |-> "Domain", host |-> name, port |-> port]

\* (mutant) the port in little-endian order
PortBytes_le(port) == << port % 256, port \div 256 >>

\* u16::to_be_bytes of the port
PortBytes(port) == << port \div 256, port % 256 >>

\* the longest domain TargetAddr::encode takes (protocol.rs 87)
DomainLenMax == 255

\* TargetAddr::encode
TargetAddr_encode(a) ==
    CASE a.kind = "V4" -> << 1 >> \o a.host \o PortBytes(a.port)
      [] a.kind = "V6" -> << 4 >> \o a.host \o PortBytes(a.port)
      [] a.kind = "Domain" ->
            << 3, Len(a.host) >> \o a.host \o PortBytes(a.port)

AddrErr == [ok |-> FALSE]

\* TargetAddr::decode
TargetAddr_decode(data) ==
    IF Len(data) = 0 THEN AddrErr
    ELSE IF data[1] = 1 THEN
        IF Len(data) < 7 THEN AddrErr
        ELSE [ok |-> TRUE,
              addr |-> IpV4(SubSeq(data, 2, 5), data[6] * 256 + data[7]),
              consumed |-> 7]
    ELSE IF data[1] = 4 THEN
        IF Len(data) < 19 THEN AddrErr
        ELSE [ok |-> TRUE,
              addr |-> IpV6(SubSeq(data, 2, 17), data[18] * 256 + data[19]),
              consumed |-> 19]
    ELSE IF data[1] = 3 THEN
        IF Len(data) < 2 THEN AddrErr
        ELSE LET dlen == data[2]
                 total == 2 + dlen + 2
             IN  IF Len(data) < total THEN AddrErr
                 ELSE IF ~Utf8Valid(SubSeq(data, 3, 2 + dlen)) THEN AddrErr
                 ELSE [ok |-> TRUE,
                       addr |-> Domain(SubSeq(data, 3, 2 + dlen),
                                       data[3 + dlen] * 256 + data[4 + dlen]),
                       consumed |-> total]
    ELSE AddrErr


\* ------------------------------------------------------- model parameters

\* the shared obfuscation settings of the deployment under test
TestKey == << 60, 165, 15 >>
WrongKey == << 60, 77, 15 >>
TestSalt == U32(51966, 47806)
PaddingMin == 0
PaddingMax == 1

GoodCodec ==
    Codec(Obfuscator(TestKey, TestSalt, "PositionalXorRotate"),
          PaddingMin, PaddingMax)
WrongCodec ==
    Codec(Obfuscator(WrongKey, TestSalt, "PositionalXorRotate"),
          PaddingMin, PaddingMax)

\* the nonces the rng can draw (the second makes nonce + 4 + padding wrap)
Nonces == { U32(0, 7), U32(65535, 65534) }

\* the padding the rng can draw: any length of the codec's range
PadFill == { 165 }
Paddings(codec) ==
    UNION { [1..n -> PadFill] : n \in PaddingLens(codec) }

\* every wire form encode_frame can give a frame when the rng draws one of
\* `nonces` and any padding of the codec's range
Encodings(codec, nonces, command, payload) ==
    { encode_frame(codec, command, payload, nonce, padding) :
        nonce \in nonces, padding \in Paddings(codec) }

Min(a, b) == IF a < b THEN a ELSE b

\* ---------------------------------------------------------------- sockets

\* One direction of a TCP connection: the bytes written and not yet read, and
\* whether the writer is still there ("open"), has closed ("eof") or has reset
\* the connection ("rst").  keep = "pipe": the reader consumes the bytes;
\* "hist": the reader is outside the model and data holds all bytes written;
\* "sink": the reader is outside the model and the bytes are not recorded;
\* "burst": as "pipe", for a stream whose bytes have all arrived and whose
\* reader gets with each read all that its buffer has room for.
Chan(data, fin, keep) == [data |-> data, fin |-> fin, keep |-> keep]

ChanWrite(ch, bytes) ==
    IF ch.keep = "sink" THEN ch ELSE [ch EXCEPT !.data = @ \o bytes]

ChanTake(ch, n) == [ch EXCEPT !.data = SubSeqFrom(@, n + 1)]

\* the local end drops the socket: the peer reads EOF after the bytes in flight
ChanShut(ch) == IF ch.fin = "open" THEN [ch EXCEPT !.fin = "eof"] ELSE ch

\* the stream a socket's owner reads, for each stream it writes
Back == [c2s |-> "s2c", s2c |-> "c2s", s2t |-> "t2s", c2a |-> "a2c",
         c2d |-> "d2c"]

\* write_all succeeds unless the peer has reset the connection
WriteOk(n, dst) == n[Back[dst]].fin # "rst"

\* What socket.read(&mut buf[..space]) can return: an error after a reset,
\* Ok(0) for an empty slice or at EOF, Ok(n) for any part of the bytes in
\* flight; with nothing in flight the read pends, and `timed` reads time out
\* (a read into an empty slice may wait for the socket to become readable
\* before it returns Ok(0), so that it too can time out).
ReadOutcomes(ch, space, timed) ==
    IF ch.fin = "rst" THEN { [kind |-> "err", n |-> 0] }
    ELSE IF space = 0
         THEN { [kind |-> "data", n |-> 0] }
                \cup { [kind |-> "timeout", n |-> 0] :
                         x \in { y \in { 0 } : /\ timed /\ ch.data = << >>
                                                /\ ch.fin = "open" } }
    ELSE IF ch.data # << >> /\ ch.keep = "burst"
         THEN { [kind |-> "data", n |-> Min(Len(ch.data), space)] }
    ELSE IF ch.data # << >>
         THEN { [kind |-> "data", n |-> n] : n \in 1..Min(Len(ch.data), space) }
    ELSE IF ch.fin = "eof" THEN { [kind |-> "data", n |-> 0] }
    ELSE IF timed THEN { [kind |-> "timeout", n |-> 0] }
    ELSE { }


\* ------------------------------------------------------------------ state

VARIABLES
    cfg,    \* what is configured and who is on the other end of each socket
    net,    \* the byte streams between the application, client, server, target
    srv,    \* the server's handler for the flow (handle_client)
    cli,    \* the client's handler for the flow (handle_connection)
    log,    \* what each handler has read and written so far
    recv,   \* a frames-to-plaintext half of a relay, by the lengths it handles
    acc,    \* the accept loop of a program and the tasks it has spawned
    wait,   \* a handshake wait of a handler, by the seconds that pass
    retry,  \* a call of connect_with_retry, by its attempts and sleeps
    call    \* a call of a function of the protocol: its input and its result

vars == << cfg, net, srv, cli, log, recv, acc, wait, retry, call >>

\* a flow of the handlers
flow == << cfg, net, srv, cli, log >>

\* the views of the program that a flow of the handlers leaves alone
apart == << recv, acc, wait, retry, call >>

\* what each of these views leaves alone
but_recv == << flow, acc, wait, retry, call >>
but_acc == << flow, recv, wait, retry, call >>
but_wait == << flow, recv, acc, retry, call >>
but_retry == << flow, recv, acc, wait, call >>
but_call == << flow, recv, acc, wait, retry >>

\* the codec of both handlers, with the padding range the flow is configured
\* with
FlowCodec ==
    [GoodCodec EXCEPT !.padding_min = cfg.padding_min,
                      !.padding_max = cfg.padding_max]

\* ------------------------------------------------- server: handle_client

\* (mutant) the end of the plain stream is framed like its data
outbound_command_data(close) == Data

\* the frame of a plain read: Data, and Close at EOF (handler.rs 182-187,
\* proxy.rs 254-259)
outbound_command(close) == IF close THEN Close ELSE Data

\* One half of a relay at an await: reading, or writing `payload`; buf is
\* the undecoded rest of a frame decoder, close marks the Close frame
Half(pc, buf, payload, close) ==
    [pc |-> pc, buf |-> buf, payload |-> payload, close |-> close]

HalfIdle == Half("idle", << >>, << >>, FALSE)
HalfRead == Half("read", << >>, << >>, FALSE)

HandshakeBufLen == 4096
RelayBufLen == 65792
PlainBufLen == 8192

\* Option<Vec<u8>>: no fallback, or the pre-built fallback response (an HTTP
\* reply; its first bytes stand for it)
NoFallback == [some |-> FALSE, bytes |-> << >>]
SomeFallback == [some |-> TRUE, bytes |-> << 72, 84, 84, 80 >>]

SrvInit(on) ==
    [pc |-> IF on THEN "handshake" ELSE "off",
     buf |-> << >>, addr |-> "none", res |-> "none",
     up |-> HalfIdle, down |-> HalfIdle]

\* (mutant) a result is there but the handler and its halves keep running
SrvReturn_running(result) == [srv EXCEPT !.res = result]

\* handle_client returns: the handler is gone and its sockets are dropped
SrvReturn(result) ==
    [srv EXCEPT !.pc = "done", !.res = result, !.buf = << >>,
                !.up = HalfIdle, !.down = HalfIdle]

SrvDropSockets(n) ==
    [n EXCEPT !.s2c = ChanShut(@), !.s2t = ChanShut(@)]

\* One turn of the handshake loop (handler.rs 22-57 and 60) after a read
\* gave outcome o: where the handler goes, and whether it sends the fallback.
handshake_stop(result, fb) ==
    [next |-> "done", res |-> result, fallback |-> fb,
     buf |-> << >>, addr |-> "none"]

\* (mutant) the command of the first frame is not checked
handshake_decoded_any_command(nb, d) ==
    IF d.tag = "Some" THEN
        LET a == TargetAddr_decode(d.payload)
        IN  IF ~a.ok THEN handshake_stop("InvalidData", FALSE)
            ELSE [next |-> "dial", res |-> "none", fallback |-> FALSE,
                  buf |-> SubSeqFrom(nb, d.consumed + 1), addr |-> a.addr]
    ELSE IF d.tag = "None" THEN
        IF Len(nb) > HandshakeBufLen THEN handshake_stop("Ok", TRUE)
        ELSE [next |-> "handshake", res |-> "none", fallback |-> FALSE,
              buf |-> nb, addr |-> "none"]
    ELSE handshake_stop("Ok", TRUE)

\* handler.rs 32-60 on the buffer nb, d being what decode_frame makes of it
handshake_decoded(nb, d) ==
    IF d.tag = "Some" THEN
        IF d.command # Connect THEN handshake_stop("InvalidData", FALSE)
        ELSE LET a == TargetAddr_decode(d.payload)
             IN  IF ~a.ok THEN handshake_stop("InvalidData", FALSE)
                 ELSE [next |-> "dial", res |-> "none", fallback |-> FALSE,
                       buf |-> SubSeqFrom(nb, d.consumed + 1),
                       addr |-> a.addr]
    ELSE IF d.tag = "None" THEN
        IF Len(nb) > HandshakeBufLen THEN handshake_stop("Ok", TRUE)
        ELSE [next |-> "handshake", res |-> "none", fallback |-> FALSE,
              buf |-> nb, addr |-> "none"]
    ELSE handshake_stop("Ok", TRUE)

handshake_step(buf, data, o) ==
    IF o.kind = "timeout" THEN handshake_stop("TimedOut", FALSE)
    ELSE IF o.kind = "err" THEN handshake_stop("Io", FALSE)
    ELSE IF o.n = 0 THEN handshake_stop("ConnectionReset", FALSE)
    ELSE CHOOSE r \in UNION
           { { handshake_decoded(nb, d) : d \in { decode_frame(GoodCodec, nb) } } :
               nb \in { buf \o SubSeq(data, 1, o.n) } }
           : TRUE

\* (mutant) a response is written also when none is configured
send_fallback_unconditional(fallback_response) == SomeFallback.bytes

\* (mutant) without a configured response a built-in page is written
send_fallback_builtin(fallback_response) ==
    IF fallback_response.some THEN fallback_response.bytes
    ELSE << 52, 48, 52 >>

\* send_fallback_and_close: the bytes it writes to the client
send_fallback_and_close(fallback_response) ==
    IF fallback_response.some THEN fallback_response.bytes ELSE << >>

LogTx(l, entry) == [l EXCEPT !.s_tx = Append(@, entry)]

LogRead(l, field, bytes) == [l EXCEPT ![field] = @ \o bytes]

ServerHandshake ==
    /\ srv.pc = "handshake"
    /\ \E o \in ReadOutcomes(net.c2s, HandshakeBufLen - Len(srv.buf), TRUE) :
       \E r \in { handshake_step(srv.buf, net.c2s.data, o) } :
         LET fb == IF r.fallback
                   THEN send_fallback_and_close(cfg.fallback_response)
                   ELSE << >>
             n1 == [net EXCEPT !.c2s = ChanTake(@, o.n),
                               !.s2c = ChanWrite(@, fb)]
         IN  /\ srv' = IF r.next = "done" THEN SrvReturn(r.res)
                       ELSE [srv EXCEPT !.pc = r.next, !.buf = r.buf,
                                        !.addr = r.addr]
             /\ net' = IF r.next = "done" THEN SrvDropSockets(n1) ELSE n1
             /\ log' = LET l1 == LogRead(log, "s_read",
                                         SubSeq(net.c2s.data, 1, o.n))
                       IN  IF fb # << >>
                           THEN LogTx(l1, [kind |-> "raw", command |-> 0,
                                           payload |-> fb])
                           ELSE l1
    /\ UNCHANGED << apart, cfg, cli >>

\* resolve_target and TcpStream::connect with its 10 s timeout: what the
\* resolver and the network can answer
DialOutcomes(addr) ==
    IF addr.kind = "Domain"
    THEN { "ok", "dns_error", "dns_empty", "refused", "timeout" }
    ELSE { "ok", "refused", "timeout" }

DialError(o) ==
    CASE o = "dns_error" -> "Io"
      [] o = "dns_empty" -> "NotFound"
      [] o = "refused" -> "Io"
      [] o = "timeout" -> "TimedOut"

\* (mutant) the timeout of the connect is not turned into an error
dial_connected_or_late(o) == o \in { "ok", "timeout" }

\* the two `?` of handler.rs 61 and 66-71: the handler goes on only with a
\* connected target
dial_connected(o) == o = "ok"

ServerDial ==
    /\ srv.pc = "dial"
    /\ \E o \in DialOutcomes(srv.addr) :
         /\ srv' = IF dial_connected(o) THEN [srv EXCEPT !.pc = "ack"]
                   ELSE SrvReturn(DialError(o))
         /\ net' = IF dial_connected(o) THEN net ELSE SrvDropSockets(net)
         /\ log' = [log EXCEPT !.s_dial = Append(@, o)]
    /\ UNCHANGED << apart, cfg, cli >>

\* handler.rs 74-81: the ConnectAck is written and the relay starts with the
\* bytes left in the handshake buffer
\* (mutant) the upstream half starts with an empty buffer
upstream_initial_empty(initial) == Half("start", << >>, << >>, FALSE)

\* the upstream half before its first poll: handler.rs 136-143 copy the
\* bytes left over from the handshake into its buffer
upstream_initial(initial) == Half("start", initial, << >>, FALSE)

ServerSendAck ==
    /\ srv.pc = "ack"
    /\ IF WriteOk(net, "s2c")
       THEN /\ \E w \in Encodings(FlowCodec, cfg.nonces, ConnectAck, << 0 >>) :
                 /\ net' = [net EXCEPT !.s2c = ChanWrite(@, w.wire)]
                 /\ log' = LogTx(log, [kind |-> "frame", command |-> ConnectAck,
                                       payload |-> << 0 >>])
            /\ srv' = [srv EXCEPT !.pc = "relay", !.buf = << >>,
                                  !.up = upstream_initial(srv.buf),
                                  !.down = HalfRead]
       ELSE /\ srv' = SrvReturn("Io")
            /\ net' = SrvDropSockets(net)
            /\ log' = log
    /\ UNCHANGED << apart, cfg, cli >>

\* The upstream half from the top of its outer loop to its next await
\* (handler.rs 145-168): frames are decoded from the buffer until a Data frame
\* has to be written ("write"), more bytes are needed ("read"), or the half
\* returns ("ok" on Close, "err" on a decode error).
RECURSIVE upstream_decode(_)

\* (mutant) the buffer is not shifted behind a Data frame
upstream_decoded_unshifted(buf, d) ==
    IF d.tag = "Err" THEN [next |-> "err", buf |-> << >>, payload |-> << >>]
    ELSE IF d.tag = "None"
         THEN [next |-> "read", buf |-> buf, payload |-> << >>]
    ELSE IF d.command = Data
         THEN [next |-> "write", buf |-> buf, payload |-> d.payload]
    ELSE IF d.command = Close
         THEN [next |-> "ok", buf |-> << >>, payload |-> << >>]
    ELSE upstream_decode(SubSeqFrom(buf, d.consumed + 1))

\* (mutant) a Close frame is skipped like a Connect frame
upstream_decoded_no_close(buf, d) ==
    IF d.tag = "Err" THEN [next |-> "err", buf |-> << >>, payload |-> << >>]
    ELSE IF d.tag = "None"
         THEN [next |-> "read", buf |-> buf, payload |-> << >>]
    ELSE IF d.command = Data
         THEN [next |-> "write", buf |-> SubSeqFrom(buf, d.consumed + 1),
               payload |-> d.payload]
    ELSE upstream_decode(SubSeqFrom(buf, d.consumed + 1))

\* handler.rs 151-164 on the buffer, d being what decode_frame makes of it
upstream_decoded(buf, d) ==
    IF d.tag = "Err" THEN [next |-> "err", buf |-> << >>, payload |-> << >>]
    ELSE IF d.tag = "None"
         THEN [next |-> "read", buf |-> buf, payload |-> << >>]
    ELSE IF d.command = Data
         THEN [next |-> "write", buf |-> SubSeqFrom(buf, d.consumed + 1),
               payload |-> d.payload]
    ELSE IF d.command = Close
         THEN [next |-> "ok", buf |-> << >>, payload |-> << >>]
    ELSE upstream_decode(SubSeqFrom(buf, d.consumed + 1))

upstream_decode(buf) ==
    IF Len(buf) = 0 THEN [next |-> "read", buf |-> buf, payload |-> << >>]
    ELSE CHOOSE r \in { upstream_decoded(buf, d) :
                          d \in { decode_frame(GoodCodec, buf) } } : TRUE

\* tokio::select! over the two halves (handler.rs 193-196): a half that
\* returns ends the relay with its result, and the other half is dropped
SrvHalfResult(r) == IF r.next = "ok" THEN "Ok" ELSE "InvalidData"

SrvAfterUp(r) ==
    IF r.next \in {"ok", "err"} THEN SrvReturn(SrvHalfResult(r))
    ELSE [srv EXCEPT !.up = Half(r.next, r.buf, r.payload, FALSE)]

NetAfterUp(r, n) == IF r.next \in {"ok", "err"} THEN SrvDropSockets(n) ELSE n

ServerUpStart ==
    /\ srv.pc = "relay" /\ srv.up.pc = "start"
    /\ \E r \in { upstream_decode(srv.up.buf) } :
           /\ srv' = SrvAfterUp(r)
           /\ net' = NetAfterUp(r, net)
    /\ UNCHANGED << apart, cfg, cli, log >>

ServerUpWrite ==
    /\ srv.pc = "relay" /\ srv.up.pc = "write"
    /\ IF WriteOk(net, "s2t")
       THEN \E r \in { upstream_decode(srv.up.buf) } :
                /\ srv' = SrvAfterUp(r)
                /\ net' = NetAfterUp(r, [net EXCEPT !.s2t =
                                            ChanWrite(@, srv.up.payload)])
       ELSE /\ srv' = SrvReturn("Io")
            /\ net' = SrvDropSockets(net)
    /\ UNCHANGED << apart, cfg, cli, log >>

ServerUpRead ==
    /\ srv.pc = "relay" /\ srv.up.pc = "read"
    /\ \E o \in ReadOutcomes(net.c2s, RelayBufLen - Len(srv.up.buf), FALSE) :
       \E r \in { IF o.kind = "err"
                  THEN [next |-> "err", buf |-> << >>, payload |-> << >>]
                  ELSE IF o.n = 0
                  THEN [next |-> "ok", buf |-> << >>, payload |-> << >>]
                  ELSE upstream_decode(srv.up.buf
                                       \o SubSeq(net.c2s.data, 1, o.n)) } :
             /\ srv' = IF o.kind = "err" THEN SrvReturn("Io") ELSE SrvAfterUp(r)
             /\ net' = NetAfterUp(r, [net EXCEPT !.c2s = ChanTake(@, o.n)])
             /\ log' = LogRead(log, "s_read", SubSeq(net.c2s.data, 1, o.n))
    /\ UNCHANGED << apart, cfg, cli >>

ServerDownRead ==
    /\ srv.pc = "relay" /\ srv.down.pc = "read"
    /\ \E o \in ReadOutcomes(net.t2s, PlainBufLen, FALSE) :
         IF o.kind = "err"
         THEN /\ srv' = SrvReturn("Io")
              /\ net' = SrvDropSockets(net)
              /\ log' = log
         ELSE /\ srv' = [srv EXCEPT !.down =
                            Half("write", << >>,
                                 SubSeq(net.t2s.data, 1, o.n), o.n = 0)]
              /\ net' = [net EXCEPT !.t2s = ChanTake(@, o.n)]
              /\ log' = [log EXCEPT !.t_reads =
                            Append(@, SubSeq(net.t2s.data, 1, o.n))]
    /\ UNCHANGED << apart, cfg, cli >>

ServerDownWrite ==
    /\ srv.pc = "relay" /\ srv.down.pc = "write"
    /\ IF WriteOk(net, "s2c")
       THEN /\ LET command == outbound_command(srv.down.close)
               IN  \E w \in Encodings(FlowCodec, cfg.nonces, command, srv.down.payload) :
                     LET n1 == [net EXCEPT !.s2c = ChanWrite(@, w.wire)]
                     IN  /\ net' = IF srv.down.close
                                   THEN SrvDropSockets(n1) ELSE n1
                         /\ log' = LogTx(log, [kind |-> "frame",
                                               command |-> command,
                                               payload |-> srv.down.payload])
            /\ srv' = IF srv.down.close THEN SrvReturn("Ok")
                      ELSE [srv EXCEPT !.down = HalfRead]
       ELSE /\ srv' = SrvReturn("Io")
            /\ net' = SrvDropSockets(net)
            /\ log' = log
    /\ UNCHANGED << apart, cfg, cli >>


\* --------------------------------------------- client: handle_connection

AckBufLen == 256

CliInit(on) ==
    [pc |-> IF on THEN "start" ELSE "off",
     ack_buf |-> << >>, tunnel |-> "none", res |-> "none",
     up |-> HalfIdle, down |-> HalfIdle]

\* handle_connection returns: every socket of the flow is dropped
CliReturn(result) ==
    [cli EXCEPT !.pc = "done", !.res = result, !.ack_buf = << >>,
                !.up = HalfIdle, !.down = HalfIdle]

\* tunnel_connection returns Ok(()), and handle_connection with it
CliTunnelOk ==
    [cli EXCEPT !.pc = "done", !.res = "Ok", !.tunnel = "Ok",
                !.ack_buf = << >>, !.up = HalfIdle, !.down = HalfIdle]

CliDropSockets(n) ==
    [n EXCEPT !.c2a = ChanShut(@), !.c2s = ChanShut(@), !.c2d = ChanShut(@)]

\* (mutant) the fallback does not ask on_server_down
CliTunnelFailed_always_direct(e) ==
    [cli EXCEPT !.pc = "fallback_dial", !.tunnel = e, !.ack_buf = << >>,
                !.up = HalfIdle, !.down = HalfIdle]

\* tunnel_connection returns Err(e): its server socket is dropped, and
\* handle_connection (proxy.rs 128-138) falls back to a direct connection
\* when on_server_down is Direct and returns e otherwise
CliTunnelFailed(e) ==
    IF cfg.on_server_down = "Direct"
    THEN [cli EXCEPT !.pc = "fallback_dial", !.tunnel = e, !.ack_buf = << >>,
                     !.up = HalfIdle, !.down = HalfIdle]
    ELSE [cli EXCEPT !.pc = "done", !.res = e, !.tunnel = e,
                     !.ack_buf = << >>, !.up = HalfIdle, !.down = HalfIdle]

NetTunnelFailed(n) ==
    IF cfg.on_server_down = "Direct"
    THEN [n EXCEPT !.c2s = ChanShut(@)]
    ELSE CliDropSockets(n)

\* (mutant) no flow is taken for a loop
loop_detected_never(orig_dst, listen_port) == FALSE

\* proxy.rs 100: the flow was addressed to the proxy's own listen port
loop_detected(orig_dst, listen_port) == orig_dst.port = listen_port

\* proxy.rs 94-118: the original destination, the loop check, the peek for
\* the SNI and the routing decision.  peek waits for the first bytes of the
\* application (or its EOF) and consumes nothing.
ClientStart ==
    /\ cli.pc = "start"
    /\ IF loop_detected(cfg.orig_dst, cfg.listen_port)
       THEN /\ cli' = CliReturn("Ok")
            /\ net' = CliDropSockets(net)
       ELSE /\ net.a2c.data # << >> \/ net.a2c.fin # "open"
            /\ IF net.a2c.fin = "rst"
               THEN /\ cli' = CliReturn("Io")
                    /\ net' = CliDropSockets(net)
               ELSE /\ cli' = [cli EXCEPT !.pc = IF cfg.route = "Direct"
                                                THEN "direct_dial"
                                                ELSE "server_dial"]
                    /\ net' = net
    /\ UNCHANGED << apart, cfg, srv, log >>

\* TcpStream::connect(orig_dst) of the Direct route (proxy.rs 121) and of
\* the fallback (proxy.rs 133), followed by relay_bidirectional
ClientDirectDial ==
    /\ cli.pc \in {"direct_dial", "fallback_dial"}
    /\ \E o \in {"ok", "refused"} :
         /\ cli' = IF o = "ok"
                   THEN [cli EXCEPT !.pc = "splice",
                                    !.up = HalfRead, !.down = HalfRead]
                   ELSE CliReturn("Io")
         /\ net' = IF o = "ok" THEN net ELSE CliDropSockets(net)
         /\ log' = [log EXCEPT !.c_dial = Append(@, << "direct", o >>)]
    /\ UNCHANGED << apart, cfg, srv >>

\* connect_with_retry (proxy.rs 153): a stream to the server, or the last
\* attempt's error.  A server handler of the model starts with the connection.
ClientServerDial ==
    /\ cli.pc = "server_dial"
    /\ \E o \in {"ok", "refused"} :
         /\ cli' = IF o = "ok" THEN [cli EXCEPT !.pc = "send_connect"]
                   ELSE CliTunnelFailed("Io")
         /\ net' = IF o = "ok" THEN net ELSE NetTunnelFailed(net)
         /\ srv' = IF o = "ok" /\ cfg.server_on
                   THEN [srv EXCEPT !.pc = "handshake"] ELSE srv
         /\ log' = [log EXCEPT !.c_dial = Append(@, << "server", o >>)]
    /\ UNCHANGED << apart, cfg >>

\* (mutant) the name the sniffer found is not used
connect_target_ip(sni, orig_dst) == orig_dst

\* proxy.rs 156-160: Domain(sni, port) when the sniffer found a name
connect_target(sni, orig_dst) ==
    IF sni.some THEN Domain(sni.name, orig_dst.port) ELSE orig_dst

LogCTx(l, command, payload) ==
    [l EXCEPT !.c_tx = Append(@, [command |-> command, payload |-> payload])]

\* proxy.rs 162-164: the Connect frame is written to the server
ClientSendConnect ==
    /\ cli.pc = "send_connect"
    /\ IF WriteOk(net, "c2s")
       THEN /\ LET payload == TargetAddr_encode(
                                 connect_target(cfg.sni, cfg.orig_dst))
               IN  \E w \in Encodings(FlowCodec, cfg.nonces, Connect, payload) :
                     /\ net' = [net EXCEPT !.c2s = ChanWrite(@, w.wire)]
                     /\ log' = LogCTx(log, Connect, payload)
            /\ cli' = [cli EXCEPT !.pc = "ack_wait"]
       ELSE /\ cli' = CliTunnelFailed("Io")
            /\ net' = NetTunnelFailed(net)
            /\ log' = log
    /\ UNCHANGED << apart, cfg, srv >>

\* One turn of the ConnectAck loop (proxy.rs 170-195) after a read gave
\* outcome o.  On success the relay starts; what ack_buf holds behind the
\* ConnectAck frame is not passed on.
ack_fail(e) == [next |-> "fail", res |-> e, buf |-> << >>, rest |-> 0]

\* (mutant) only a non-zero status refuses: an empty payload is accepted
ack_decoded_empty_ok(nb, d) ==
    IF d.tag = "Err" THEN ack_fail("InvalidData")
    ELSE IF d.tag = "None"
    THEN [next |-> "ack_wait", res |-> "none", buf |-> nb, rest |-> 0]
    ELSE IF d.command # ConnectAck THEN ack_fail("InvalidData")
    ELSE IF Len(d.payload) > 0 /\ d.payload[1] # 0
    THEN ack_fail("ConnectionRefused")
    ELSE [next |-> "relay", res |-> "none", buf |-> << >>,
          rest |-> Len(nb) - d.consumed]

\* proxy.rs 183-194 on the buffer nb, d being what decode_frame makes of it;
\* rest counts the bytes of nb behind the frame (the `_` of proxy.rs 184)
ack_decoded(nb, d) ==
    IF d.tag = "Err" THEN ack_fail("InvalidData")
    ELSE IF d.tag = "None"
    THEN [next |-> "ack_wait", res |-> "none", buf |-> nb, rest |-> 0]
    ELSE IF d.command # ConnectAck THEN ack_fail("InvalidData")
    ELSE IF Len(d.payload) = 0 \/ d.payload[1] # 0
    THEN ack_fail("ConnectionRefused")
    ELSE [next |-> "relay", res |-> "none", buf |-> << >>,
          rest |-> Len(nb) - d.consumed]

ack_step(ack_buf, data, o) ==
    IF o.kind = "timeout" THEN ack_fail("TimedOut")
    ELSE IF o.kind = "err" THEN ack_fail("Io")
    ELSE IF o.n = 0 THEN ack_fail("ConnectionReset")
    ELSE CHOOSE r \in UNION
           { { ack_decoded(nb, d) : d \in { decode_frame(GoodCodec, nb) } } :
               nb \in { ack_buf \o SubSeq(data, 1, o.n) } }
           : TRUE

ClientAckRead ==
    /\ cli.pc = "ack_wait"
    /\ \E o \in ReadOutcomes(net.s2c, AckBufLen - Len(cli.ack_buf), TRUE) :
       \E r \in { ack_step(cli.ack_buf, net.s2c.data, o) } :
         LET n1 == [net EXCEPT !.s2c = ChanTake(@, o.n)]
         IN  /\ cli' = IF r.next = "fail" THEN CliTunnelFailed(r.res)
                       ELSE IF r.next = "relay"
                       THEN [cli EXCEPT !.pc = "relay", !.ack_buf = << >>,
                                        !.up = HalfRead, !.down = HalfRead]
                       ELSE [cli EXCEPT !.ack_buf = r.buf]
             /\ net' = IF r.next = "fail" THEN NetTunnelFailed(n1) ELSE n1
             /\ log' = [LogRead(log, "c_read", SubSeq(net.s2c.data, 1, o.n))
                         EXCEPT !.c_drop = r.rest]
    /\ UNCHANGED << apart, cfg, srv >>

\* tokio::select! over upload and download (proxy.rs 298-301): the half that
\* returns ends relay_obfuscated, tunnel_connection and handle_connection
\* with its result when that is Ok, and fails the tunnel when it is an error
CliRelayEnds(result) ==
    IF result = "Ok" THEN CliTunnelOk ELSE CliTunnelFailed(result)

NetRelayEnds(result, n) ==
    IF result = "Ok" THEN CliDropSockets(n) ELSE NetTunnelFailed(n)

\* upload (proxy.rs 250-263): a read of the application socket
ClientUpRead ==
    /\ cli.pc = "relay" /\ cli.up.pc = "read"
    /\ \E o \in ReadOutcomes(net.a2c, PlainBufLen, FALSE) :
         IF o.kind = "err"
         THEN /\ cli' = CliRelayEnds("Io")
              /\ net' = NetRelayEnds("Io", net)
              /\ log' = log
         ELSE /\ cli' = [cli EXCEPT !.up =
                            Half("write", << >>,
                                 SubSeq(net.a2c.data, 1, o.n), o.n = 0)]
              /\ net' = [net EXCEPT !.a2c = ChanTake(@, o.n)]
              /\ log' = [log EXCEPT !.a_reads =
                            Append(@, SubSeq(net.a2c.data, 1, o.n))]
    /\ UNCHANGED << apart, cfg, srv >>

\* upload: the Data frame of the read, or the Close frame at EOF, is written
ClientUpWrite ==
    /\ cli.pc = "relay" /\ cli.up.pc = "write"
    /\ IF WriteOk(net, "c2s")
       THEN /\ LET command == outbound_command(cli.up.close)
               IN  \E w \in Encodings(FlowCodec, cfg.nonces, command, cli.up.payload) :
                     LET n1 == [net EXCEPT !.c2s = ChanWrite(@, w.wire)]
                     IN  /\ net' = IF cli.up.close
                                   THEN CliDropSockets(n1) ELSE n1
                         /\ log' = LogCTx(log, command, cli.up.payload)
            /\ cli' = IF cli.up.close THEN CliTunnelOk
                      ELSE [cli EXCEPT !.up = HalfRead]
       ELSE /\ cli' = CliRelayEnds("Io")
            /\ net' = NetRelayEnds("Io", net)
            /\ log' = log
    /\ UNCHANGED << apart, cfg, srv >>

\* The download half from a completed read to its next await (proxy.rs
\* 277-293): frames are decoded from the buffer until a Data frame has to be
\* written, more bytes are needed, or the half returns.
RECURSIVE download_decode(_)
download_decoded(buf, d) ==
    IF d.tag = "Err" THEN [next |-> "err", buf |-> << >>, payload |-> << >>]
    ELSE IF d.tag = "None"
         THEN [next |-> "read", buf |-> buf, payload |-> << >>]
    ELSE IF d.command = Data
         THEN [next |-> "write", buf |-> SubSeqFrom(buf, d.consumed + 1),
               payload |-> d.payload]
    ELSE IF d.command = Close
         THEN [next |-> "ok", buf |-> << >>, payload |-> << >>]
    ELSE download_decode(SubSeqFrom(buf, d.consumed + 1))

download_decode(buf) ==
    CHOOSE r \in { download_decoded(buf, d) :
                     d \in { decode_frame(GoodCodec, buf) } } : TRUE

CliAfterDown(r) ==
    IF r.next = "ok" THEN CliRelayEnds("Ok")
    ELSE IF r.next = "err" THEN CliRelayEnds("InvalidData")
    ELSE [cli EXCEPT !.down = Half(r.next, r.buf, r.payload, FALSE)]

NetAfterDown(r, n) ==
    IF r.next = "ok" THEN NetRelayEnds("Ok", n)
    ELSE IF r.next = "err" THEN NetRelayEnds("InvalidData", n)
    ELSE n

ClientDownRead ==
    /\ cli.pc = "relay" /\ cli.down.pc = "read"
    /\ \E o \in ReadOutcomes(net.s2c, RelayBufLen - Len(cli.down.buf), FALSE) :
       \E r \in { IF o.n = 0
                  THEN [next |-> "ok", buf |-> << >>, payload |-> << >>]
                  ELSE download_decode(cli.down.buf
                                       \o SubSeq(net.s2c.data, 1, o.n)) } :
         LET n1 == [net EXCEPT !.s2c = ChanTake(@, o.n)]
         IN  /\ cli' = IF o.kind = "err" THEN CliRelayEnds("Io")
                       ELSE CliAfterDown(r)
             /\ net' = IF o.kind = "err" THEN NetRelayEnds("Io", n1)
                       ELSE NetAfterDown(r, n1)
             /\ log' = LogRead(log, "c_read", SubSeq(net.s2c.data, 1, o.n))
    /\ UNCHANGED << apart, cfg, srv >>

ClientDownWrite ==
    /\ cli.pc = "relay" /\ cli.down.pc = "write"
    /\ IF WriteOk(net, "c2a")
       THEN \E r \in { download_decode(cli.down.buf) } :
                /\ cli' = CliAfterDown(r)
                /\ net' = NetAfterDown(r, [net EXCEPT !.c2a =
                                              ChanWrite(@, cli.down.payload)])
                /\ log' = LogRead(log, "a_tx", cli.down.payload)
       ELSE /\ cli' = CliRelayEnds("Io")
            /\ net' = NetRelayEnds("Io", net)
            /\ log' = log
    /\ UNCHANGED << apart, cfg, srv >>

\* relay_bidirectional (proxy.rs 224-235): tokio::io::copy in each direction,
\* under select!.  A copy reads a chunk and writes it, and returns at EOF.
ClientSpliceRead ==
    /\ cli.pc = "splice"
    /\ \E h \in {"up", "down"} :
         /\ cli[h].pc = "read"
         /\ LET src == IF h = "up" THEN "a2c" ELSE "d2c"
            IN  \E o \in ReadOutcomes(net[src], PlainBufLen, FALSE) :
                  IF o.kind = "err" \/ o.n = 0
                  THEN /\ cli' = CliReturn(IF o.kind = "err" THEN "Io" ELSE "Ok")
                       /\ net' = CliDropSockets(net)
                  ELSE /\ cli' = [cli EXCEPT ![h] =
                                     Half("write", << >>,
                                          SubSeq(net[src].data, 1, o.n), FALSE)]
                       /\ net' = [net EXCEPT ![src] = ChanTake(@, o.n)]
    /\ UNCHANGED << apart, cfg, srv, log >>

ClientSpliceWrite ==
    /\ cli.pc = "splice"
    /\ \E h \in {"up", "down"} :
         /\ cli[h].pc = "write"
         /\ LET dst == IF h = "up" THEN "c2d" ELSE "c2a"
            IN  IF WriteOk(net, dst)
                THEN /\ net' = [net EXCEPT ![dst] = ChanWrite(@, cli[h].payload)]
                     /\ cli' = [cli EXCEPT ![h] = HalfRead]
                ELSE /\ net' = CliDropSockets(net)
                     /\ cli' = CliReturn("Io")
    /\ UNCHANGED << apart, cfg, srv, log >>

\* ------------------------------------------------------------ environment

\* the longest streams the application and the target send (distinct bytes)
MaxAppBytes == 2
MaxTargetBytes == 2
AppData == [i \in 1..MaxAppBytes |-> i]
TargetData == [i \in 1..MaxTargetBytes |-> 16 + i]
\* what the original destination answers on a direct connection
DirectData == << 33 >>

NonceA == U32(0, 7)
NonceB == U32(65535, 65534)
TargetV4 == IpV4(<< 10, 0, 0, 1 >>, 443)
TargetName == Domain(<< 120 >>, 443)
\* a connection made to the proxy's own listen port
ListenPort == 1080
OwnPort == IpV4(<< 10, 0, 0, 2 >>, ListenPort)
\* the addresses of the gateway itself
LocalAddrs == { << 10, 0, 0, 2 >> }
\* a remote host that serves on the port number the proxy listens on
RemoteSamePort == IpV4(<< 10, 0, 0, 1 >>, ListenPort)

NoSni == [some |-> FALSE, name |-> << >>]
SomeSni == [some |-> TRUE, name |-> << 120 >>]

Wire(codec, command, payload, nonce, padding) ==
    encode_frame(codec, command, payload, nonce, padding).wire

HttpProbe == << 71, 69, 84, 32, 47, 32, 72, 84, 84, 80 >>

\* the bytes of a domain address whose length byte is 0, with port 443
EmptyDomainBytes == << 3, 0 >> \o PortBytes(443)

\* What a peer that is not the client handler sends to the server: a client
\* that pipelines frames behind its Connect, frames after its Close, a wrong
\* key, a probe, a first frame that is no Connect, bad target addresses, and
\* bytes that are no frame in the middle of the relay.
PeerScripts ==
    { Wire(GoodCodec, Connect, TargetAddr_encode(TargetV4), NonceA, << >>)
        \o Wire(GoodCodec, Data, << 1 >>, NonceB, << 165 >>)
        \o Wire(GoodCodec, Connect, << >>, NonceA, << >>)
        \o Wire(GoodCodec, Data, << 2 >>, NonceA, << >>)
        \o Wire(GoodCodec, ConnectAck, << 0 >>, NonceB, << >>)
        \o Wire(GoodCodec, Close, << >>, NonceA, << >>)
        \o Wire(GoodCodec, Data, << 3 >>, NonceA, << >>),
      Wire(GoodCodec, Connect, TargetAddr_encode(TargetName), NonceB, << 165 >>)
        \o Wire(GoodCodec, Data, << 1, 2 >>, NonceA, << >>)
        \o HttpProbe,
      Wire(WrongCodec, Connect, TargetAddr_encode(TargetV4), NonceA, << >>),
      HttpProbe,
      Wire(GoodCodec, Data, TargetAddr_encode(TargetV4), NonceA, << >>),
      Wire(GoodCodec, Close, << >>, NonceB, << >>),
      Wire(GoodCodec, ConnectAck, << 0 >>, NonceA, << 165 >>),
      Wire(GoodCodec, Connect, << 9 >>, NonceA, << >>),
      Wire(GoodCodec, Connect, << 1, 10, 0 >>, NonceA, << >>),
      Wire(GoodCodec, Connect, EmptyDomainBytes, NonceA, << >>) }

\* What a peer that is not the server handler answers the client: frames
\* pipelined behind its ConnectAck, frames after its Close, a first frame that
\* is no ConnectAck, a ConnectAck that refuses, a wrong key, and plain HTTP.
AckThenData ==
    Wire(GoodCodec, ConnectAck, << 0 >>, NonceA, << >>)
      \o Wire(GoodCodec, Data, << 17 >>, NonceB, << 165 >>)
      \o Wire(GoodCodec, Data, << 18 >>, NonceA, << >>)

AckOnly == Wire(GoodCodec, ConnectAck, << 0 >>, NonceA, << 165 >>)

AckThenProbe ==
    Wire(GoodCodec, ConnectAck, << 0 >>, NonceB, << >>) \o HttpProbe

ServerScripts ==
    { AckThenData,
      AckThenProbe,
      Wire(GoodCodec, ConnectAck, << 0, 5 >>, NonceB, << 165 >>)
        \o Wire(GoodCodec, Connect, << >>, NonceA, << >>)
        \o Wire(GoodCodec, Data, << 17 >>, NonceA, << >>)
        \o Wire(GoodCodec, ConnectAck, << 0 >>, NonceA, << >>)
        \o Wire(GoodCodec, Data, << 18 >>, NonceA, << >>),
      Wire(GoodCodec, ConnectAck, << 0 >>, NonceA, << >>)
        \o Wire(GoodCodec, Data, << 17, 18 >>, NonceA, << >>)
        \o Wire(GoodCodec, Close, << >>, NonceA, << >>)
        \o Wire(GoodCodec, Data, << 19 >>, NonceA, << >>),
      Wire(GoodCodec, ConnectAck, << >>, NonceA, << >>),
      Wire(GoodCodec, ConnectAck, << 1 >>, NonceA, << >>),
      Wire(GoodCodec, Data, << 17 >>, NonceA, << >>),
      Wire(GoodCodec, Close, << >>, NonceB, << >>),
      Wire(GoodCodec, Connect, TargetAddr_encode(TargetV4), NonceA, << >>),
      Wire(WrongCodec, ConnectAck, << 0 >>, NonceA, << >>),
      HttpProbe }

Idle == Chan(<< >>, "open", "sink")

EmptyLog ==
    [s_read |-> << >>, s_tx |-> << >>, s_dial |-> << >>, t_reads |-> << >>,
     c_read |-> << >>, c_drop |-> 0, c_tx |-> << >>, c_dial |-> << >>,
     a_reads |-> << >>, a_tx |-> << >>]

\* the configuration of a flow; the rng of the flow draws a nonce of
\* `nonces`, and the peers writing the streams of `hangups` may stop early
Config(server_on, client_on, fallback_response, route, on_server_down, sni, orig_dst, padding_min, padding_max, nonces, hangups) ==
    [server_on |-> server_on, client_on |-> client_on,
     fallback_response |-> fallback_response, route |-> route,
     on_server_down |-> on_server_down, sni |-> sni, orig_dst |-> orig_dst,
     listen_port |-> ListenPort, padding_min |-> padding_min,
     padding_max |-> padding_max, nonces |-> nonces, hangups |-> hangups]

Streams == { "a2c", "d2c", "c2s", "s2c", "t2s" }

\* A peer that sends more than the handshake buffer holds before a frame is
\* complete: a frame whose header announces a payload that ends one byte
\* behind the buffer.
FloodScript ==
    Wire(GoodCodec, Connect,
         [i \in 1..(HandshakeBufLen + 1 - NONCE_LEN - HEADER_LEN) |-> 0],
         NonceA, << >>)

\* a flow arriving at the server from a peer that is not the client handler
InitServerOnly ==
    /\ cfg \in { Config(TRUE, FALSE, fb, "Proxy", "Proxy", NoSni, TargetV4,
                        PaddingMin, PaddingMax, Nonces, Streams) :
                   fb \in { NoFallback, SomeFallback } }
    /\ \E c2s \in { Chan(script, "open", "pipe") : script \in PeerScripts }
                  \cup { Chan(FloodScript, "open", "burst") } :
         net = [a2c |-> Idle, c2a |-> Idle, c2d |-> Idle, d2c |-> Idle,
                c2s |-> c2s,
                s2c |-> Chan(<< >>, "open", "sink"),
                s2t |-> Chan(<< >>, "open", "hist"),
                t2s |-> Chan(TargetData, "open", "pipe")]
    /\ srv = SrvInit(TRUE)
    /\ cli = CliInit(FALSE)
    /\ log = EmptyLog

\* the client's side of a flow: its routing, what its server answers, and
\* what the application sends
ClientFlows ==
    { << "Proxy", "Proxy", NoSni, TargetV4, script, SubSeq(AppData, 1, 1) >> :
        script \in ServerScripts }
    \cup { << "Proxy", "Direct", NoSni, TargetV4, script, SubSeq(AppData, 1, 1) >> :
             script \in { AckThenProbe, HttpProbe } }
    \cup { << "Proxy", "Proxy", SomeSni, TargetV4, AckOnly, AppData >>,
           << "Direct", "Proxy", NoSni, TargetV4, << >>, AppData >>,
           << "Direct", "Proxy", NoSni, OwnPort, << >>, AppData >>,
           << "Proxy", "Direct", SomeSni, OwnPort, AckOnly, AppData >>,
           << "Direct", "Proxy", NoSni, RemoteSamePort, << >>, AppData >> }

\* a flow of the client handler whose server is not the server handler
InitClientOnly ==
    /\ \E f \in ClientFlows :
         /\ cfg = Config(FALSE, TRUE, NoFallback, f[1], f[2], f[3], f[4],
                         PaddingMin, PaddingMax, Nonces, Streams)
         /\ net = [a2c |-> Chan(f[6], "open", "pipe"),
                   c2a |-> Chan(<< >>, "open", "hist"),
                   c2d |-> Chan(<< >>, "open", "hist"),
                   d2c |-> Chan(DirectData, "open", "pipe"),
                   c2s |-> Chan(<< >>, "open", "sink"),
                   s2c |-> Chan(f[5], "open", "pipe"),
                   s2t |-> Idle, t2s |-> Idle]
    /\ srv = SrvInit(FALSE)
    /\ cli = CliInit(TRUE)
    /\ log = EmptyLog

\* End-to-end flows: what to do when the tunnel fails, the rng's padding and
\* nonce, what the application and the target send, and who may stop early.
\* A stream goes one way while the other way carries at most one byte.
E2EFlows ==
    { << down, r[1], r[2], AppData, << >>, Streams >> :
        down \in { "Direct", "Proxy" },
        r \in { << PaddingMin, NonceA >>, << PaddingMax, NonceB >> } }
    \cup { << "Proxy", PaddingMin, NonceA, SubSeq(AppData, 1, 1), TargetData,
              { "t2s" } >> }

\* a flow of the client handler through the server handler to the target
InitE2E ==
    /\ \E f \in E2EFlows :
         /\ cfg = Config(TRUE, TRUE, NoFallback, "Proxy", f[1], NoSni, TargetV4,
                         f[2], f[2], { f[3] }, f[6])
         /\ net = [a2c |-> Chan(f[4], "open", "pipe"),
                   c2a |-> Chan(<< >>, "open", "hist"),
                   c2d |-> Chan(<< >>, "open", "hist"),
                   d2c |-> Chan(DirectData, "open", "pipe"),
                   c2s |-> Chan(<< >>, "open", "pipe"),
                   s2c |-> Chan(<< >>, "open", "pipe"),
                   s2t |-> Chan(<< >>, "open", "hist"),
                   t2s |-> Chan(f[5], "open", "pipe")]
    /\ srv = SrvInit(FALSE)
    /\ cli = CliInit(TRUE)
    /\ log = EmptyLog

\* the streams whose writer is outside the model, while someone reads them
EnvChans ==
    (IF srv.pc \in {"handshake", "relay"} /\ ~cfg.client_on
     THEN {"c2s"} ELSE { })
    \cup (IF srv.pc = "relay" THEN {"t2s"} ELSE { })
    \cup (IF cli.pc \in {"ack_wait", "relay"} /\ ~cfg.server_on
          THEN {"s2c"} ELSE { })
    \cup (IF cli.pc \in {"start", "relay", "splice"} THEN {"a2c"} ELSE { })
    \cup (IF cli.pc = "splice" THEN {"d2c"} ELSE { })

\* a writer may go quiet without closing where the reader has a timeout
Stalls(c) ==
    \/ c = "c2s" /\ srv.pc = "handshake"
    \/ c = "s2c" /\ cli.pc = "ack_wait"

\* The writer of a stream stops after the bytes delivered so far: it closes
\* ("eof"), resets the connection ("rst"), or just sends nothing more ("open").
EnvStops ==
    /\ \E c \in EnvChans \cap cfg.hangups, k \in {"eof", "rst", "open"} :
        /\ net[c].fin = "open"
        /\ k = "open" => Stalls(c) /\ net[c].data # << >>
        /\ net' = [net EXCEPT ![c] = [@ EXCEPT !.data = << >>, !.fin = k]]
    /\ UNCHANGED << apart, cfg, srv, cli, log >>

\* ------------------------------ the receiving half of a relay, by lengths

\* The frames-to-plaintext half of relay_obfuscated (handler.rs 135-175,
\* proxy.rs 266-296) with the frames of its peer given by their lengths: of a
\* well-formed frame decode_frame needs the 8 bytes of nonce and header to
\* know the length, and all its bytes to return it.
MAX_PADDING_LEN == 255

RecvFrame(command, payload_len, padding_len) ==
    [command |-> command, payload_len |-> payload_len,
     padding_len |-> padding_len]

\* total_len of decode_frame
FrameLen(f) == NONCE_LEN + HEADER_LEN + f.padding_len + f.payload_len

RECURSIVE StreamLen(_)
StreamLen(fs) == IF fs = << >> THEN 0 ELSE FrameLen(Head(fs)) + StreamLen(Tail(fs))

\* the frames a peer sends: small ones, the largest payload with the most
\* padding the buffer of the half still holds, with one byte more, and with
\* the most a frame can have
RecvFrames ==
    { RecvFrame(Data, 1, 0),
      RecvFrame(Data, MAX_PAYLOAD_LEN, MAX_PADDING_LEN - 6),
      RecvFrame(Data, MAX_PAYLOAD_LEN, MAX_PADDING_LEN - 5),
      RecvFrame(Data, MAX_PAYLOAD_LEN, MAX_PADDING_LEN),
      RecvFrame(ConnectAck, 1, 0),
      RecvFrame(Close, 0, 0) }

RecvStreams ==
    { << f >> : f \in RecvFrames } \cup { << f, g >> : f, g \in RecvFrames }

\* the Connect frame the client handler sends for an IPv4 target, unpadded
ConnectFrameLen ==
    Len(Wire(GoodCodec, Connect, TargetAddr_encode(TargetV4), NonceA, << >>))

\* sent: the bytes of the stream the peer has sent; taken: those the half has
\* read into its buffer (for the server, `initial` is taken in the handshake);
\* consumed: those of the frames it has decoded and shifted out; next: the
\* frame at the head of the buffer; written: the payload bytes written
RecvStart(side, stream, initial) ==
    [side |-> side, stream |-> stream, sent |-> initial, taken |-> initial,
     consumed |-> 0, next |-> 1, written |-> 0, fin |-> FALSE,
     pc |-> IF side = "server" THEN "decode" ELSE "read"]

RecvOff == RecvStart("off", << >>, 0)

recv_filled(r) == r.taken - r.consumed

\* decode_frame on the buffer of the half (protocol.rs 218-258) for the
\* well-formed frames of the stream
recv_decode_frame(r) ==
    IF r.next > Len(r.stream) THEN "None"
    ELSE IF recv_filled(r) < NONCE_LEN + HEADER_LEN THEN "None"
    ELSE IF recv_filled(r) < FrameLen(r.stream[r.next]) THEN "None"
    ELSE "Some"

recv_shift(r) ==
    [r EXCEPT !.consumed = @ + FrameLen(r.stream[r.next]), !.next = @ + 1]

\* the decode loop up to the next await or return (handler.rs 147-165,
\* proxy.rs 277-293)
RECURSIVE recv_decode(_)
recv_decode(r) ==
    IF recv_decode_frame(r) = "None" THEN [r EXCEPT !.pc = "read"]
    ELSE IF r.stream[r.next].command = Data THEN [r EXCEPT !.pc = "write"]
    ELSE IF r.stream[r.next].command = Close
    THEN [recv_shift(r) EXCEPT !.pc = "done"]
    ELSE recv_decode(recv_shift(r))

\* the server's half starts in its decode loop with the handshake's leftover
RecvDecode ==
    /\ recv.pc = "decode"
    /\ recv' = recv_decode(recv)
    /\ UNCHANGED but_recv

\* the read of handler.rs 168 and proxy.rs 270 into buf[filled..]: a read
\* into an empty slice returns Ok(0), as a read at EOF does, and n == 0 ends
\* the half; the read takes all that has arrived and fits
RecvRead ==
    /\ recv.pc = "read"
    /\ LET space == RelayBufLen - recv_filled(recv)
           n == Min(recv.sent - recv.taken, space)
       IN  /\ space = 0 \/ n > 0 \/ recv.fin
           /\ recv' = IF n = 0 THEN [recv EXCEPT !.pc = "done"]
                      ELSE recv_decode([recv EXCEPT !.taken = @ + n])
    /\ UNCHANGED but_recv

\* write_all of a Data frame's payload, then the shift of the buffer
RecvWrite ==
    /\ recv.pc = "write"
    /\ recv' = recv_decode(
                 [recv_shift(recv) EXCEPT
                    !.written = @ + recv.stream[recv.next].payload_len])
    /\ UNCHANGED but_recv

\* where the bytes sent so far may end: behind the header of a frame, behind
\* a frame, and a byte before and behind each of these
RECURSIVE RecvCuts(_, _)
RecvCuts(fs, from) ==
    IF fs = << >> THEN { }
    ELSE LET h == from + NONCE_LEN + HEADER_LEN
             e == from + FrameLen(Head(fs))
         IN  { h - 1, h, e - 1, e } \cup RecvCuts(Tail(fs), e)

RecvPeerSends ==
    /\ recv.pc \in { "decode", "read", "write" }
    /\ ~recv.fin
    /\ \E to \in RecvCuts(recv.stream, 0) :
         /\ to > recv.sent
         /\ recv' = [recv EXCEPT !.sent = to]
    /\ UNCHANGED but_recv

\* the peer closes behind its last frame
RecvPeerCloses ==
    /\ recv.pc \in { "decode", "read", "write" }
    /\ ~recv.fin
    /\ recv.sent = StreamLen(recv.stream)
    /\ recv' = [recv EXCEPT !.fin = TRUE]
    /\ UNCHANGED but_recv

NextRecv ==
    \/ RecvDecode
    \/ RecvRead
    \/ RecvWrite
    \/ RecvPeerSends
    \/ RecvPeerCloses

\* ------------------------------------------------ the acceptors, by tasks

\* The accept loop of the server (main.rs 70-105) and of the client
\* (proxy.rs 67-85, spawned by main.rs 95-119).  A handler is a task that
\* does I/O on its connection and returns Ok or Err.  main returning ends
\* the runtime, which drops the tasks that have not returned.

MaxAccepted == 3
MaxConns == 2

\* st: "none" before the connection arrives, "spawned" between tokio::spawn
\* and the first poll of the task, "running" in the handler, then "rejected",
\* "ok", "err", or with the runtime "cancelled" (in its handler) or "dropped"
\* (never polled).  io: the handler has read from or written to
\* the connection.  at_limit, late, after_err: max_connections flows were
\* running, the shutdown signal had been taken, a handler had failed when the
\* connection was accepted.
Task(st, io, at_limit, late, after_err) ==
    [st |-> st, io |-> io, at_limit |-> at_limit, late |-> late,
     after_err |-> after_err]

AccStart(side, max_conns) ==
    [side |-> side, pc |-> "run", listening |-> TRUE, signal |-> FALSE,
     max_conns |-> max_conns, permits |-> max_conns,
     tasks |-> [i \in 1..MaxAccepted |->
                  Task("none", FALSE, FALSE, FALSE, FALSE)]]

AccOff == [AccStart("off", 0) EXCEPT !.pc = "off", !.listening = FALSE]

TasksIn(a, sts) == { i \in DOMAIN a.tasks : a.tasks[i].st \in sts }

\* The tasks are polled while main is in its loop; behind the loop the
\* server's runtime still polls them on its worker threads, while the
\* client's runtime (main.rs 26, current_thread) polls nothing as long as
\* main runs on to its return without an await.
Scheduled(a) == a.pc = "run" \/ (a.pc = "cleanup" /\ a.side = "server")

\* (mutant) every task gets a permit
try_acquire_unlimited(permits) == TRUE

\* Semaphore::try_acquire (main.rs 83)
try_acquire(permits) == permits > 0

\* listener.accept() and tokio::spawn (main.rs 76-82, proxy.rs 68-71)
AccAccept ==
    /\ acc.listening
    /\ \E i \in TasksIn(acc, { "none" }) :
         /\ \A j \in TasksIn(acc, { "none" }) : i <= j
         /\ acc' = [acc EXCEPT !.tasks[i] =
                      Task("spawned", FALSE,
                           (acc.side = "server"
                              /\ Cardinality(TasksIn(acc, { "running" }))
                                   = acc.max_conns),
                           acc.signal,
                           TasksIn(acc, { "err" }) # { })]
    /\ UNCHANGED but_acc

\* accept() returns an error: `result?` ends main (main.rs 77), and `?` ends
\* run_proxy (proxy.rs 68), whose JoinHandle main is waiting for
AccAcceptFails ==
    /\ acc.listening /\ acc.pc = "run"
    /\ acc' = [acc EXCEPT !.listening = FALSE, !.pc = "cleanup"]
    /\ UNCHANGED but_acc

\* the first poll of a spawned task: the server's task returns if it gets no
\* permit (main.rs 83-89), the client's goes on to its handler
AccTaskStart ==
    /\ Scheduled(acc)
    /\ \E i \in TasksIn(acc, { "spawned" }) :
         acc' = IF acc.side = "client"
                THEN [acc EXCEPT !.tasks[i].st = "running"]
                ELSE IF try_acquire(acc.permits)
                THEN [acc EXCEPT !.tasks[i].st = "running",
                                 !.permits = @ - 1]
                ELSE [acc EXCEPT !.tasks[i].st = "rejected"]
    /\ UNCHANGED but_acc

\* the handler reads from or writes to its connection
AccTaskIo ==
    /\ Scheduled(acc)
    /\ \E i \in TasksIn(acc, { "running" }) :
         /\ ~acc.tasks[i].io
         /\ acc' = [acc EXCEPT !.tasks[i].io = TRUE]
    /\ UNCHANGED but_acc

\* (mutant) the error of a handler ends the accept loop
task_returned_propagating(a, i, result) ==
    [a EXCEPT !.tasks[i].st = result,
              !.permits = IF a.side = "server" THEN @ + 1 ELSE @,
              !.listening = @ /\ result = "ok",
              !.pc = IF a.pc = "run" /\ result = "err" THEN "cleanup" ELSE @]

\* (mutant) the permit of a handler that fails is not given back
task_returned_leaking(a, i, result) ==
    [a EXCEPT !.tasks[i].st = result,
              !.permits = IF a.side = "server" /\ result = "ok" THEN @ + 1 ELSE @]

\* the handler returns: its error is logged (main.rs 91-93, proxy.rs 72-83)
\* and the permit is dropped with the task
task_returned(a, i, result) ==
    [a EXCEPT !.tasks[i].st = result,
              !.permits = IF a.side = "server" THEN @ + 1 ELSE @]

AccTaskReturns ==
    /\ Scheduled(acc)
    /\ \E i \in TasksIn(acc, { "running" }), result \in { "ok", "err" } :
         acc' = task_returned(acc, i, result)
    /\ UNCHANGED but_acc

\* shutdown_signal() completes: the server's select! leaves the loop
\* (main.rs 96-99); the client's main leaves its select! (main.rs 105-107)
\* and run_proxy is not polled again
AccSignal ==
    /\ acc.pc = "run"
    /\ acc' = [acc EXCEPT !.signal = TRUE, !.pc = "cleanup",
                          !.listening = FALSE]
    /\ UNCHANGED but_acc

\* main returns (main.rs 103-105 of the server, 110-119 of the client): the
\* runtime of #[tokio::main] is dropped and with it every task that has not
\* returned (a dropped handler gives its permit back), and the process ends
AccExit ==
    /\ acc.pc = "cleanup"
    /\ acc' = [acc EXCEPT
                 !.pc = "exited", !.listening = FALSE,
                 !.permits = IF acc.side = "server"
                             THEN @ + Cardinality(TasksIn(acc, { "running" }))
                             ELSE @,
                 !.tasks = [i \in DOMAIN @ |->
                              IF @[i].st = "running"
                              THEN [@[i] EXCEPT !.st = "cancelled"]
                              ELSE IF @[i].st = "spawned"
                              THEN [@[i] EXCEPT !.st = "dropped"]
                              ELSE @[i]]]
    /\ UNCHANGED but_acc

NextAccept ==
    \/ AccAccept
    \/ AccAcceptFails
    \/ AccTaskStart
    \/ AccTaskIo
    \/ AccTaskReturns
    \/ AccSignal
    \/ AccExit

\* ------------------------------------------- the handshake waits, by time

\* The loop in which the client waits for the ConnectAck (proxy.rs 166-195)
\* and the one in which the server waits for the Connect frame (handler.rs
\* 18-52), with a clock that counts seconds from the start of the wait.  Each
\* turn of either loop wraps its read in a new tokio::time::timeout.

AckTimeoutSec == 10
MaxHandshakeTimeout == 3
MaxClock == 12

\* the frame waited for: a ConnectAck with its status byte, a Connect with
\* the address of an IPv4 target, without padding
WaitFrameLen(side) ==
    NONCE_LEN + HEADER_LEN
      + (IF side = "client" THEN 1 ELSE Len(TargetAddr_encode(TargetV4)))

\* now: seconds since the Connect frame was sent or the peer was accepted;
\* armed: when the timeout of the pending read was started; sent, filled: the
\* bytes of the frame the peer has sent and the loop has read; slot: the
\* handler holds a permit of the server's semaphore
WaitStart(side, timeout) ==
    [side |-> side, pc |-> "read", res |-> "none", timeout |-> timeout,
     now |-> 0, armed |-> 0, sent |-> 0, filled |-> 0, fin |-> FALSE,
     slot |-> side = "server"]

WaitOff == [WaitStart("off", 0) EXCEPT !.pc = "off"]

\* the handler returns from the loop with an error: its task ends and the
\* permit is dropped with it
wait_stop(w, result) ==
    [w EXCEPT !.pc = "done", !.res = result, !.slot = FALSE]

\* One turn of the loop (proxy.rs 170-194, handler.rs 23-51) whose read
\* returns n bytes: n == 0 is EOF, a whole frame ends the wait, and on
\* Ok(None) the loop continues with a new timeout.
wait_read(w, n) ==
    IF n = 0 THEN wait_stop(w, "ConnectionReset")
    ELSE IF w.filled + n >= WaitFrameLen(w.side)
         THEN [w EXCEPT !.pc = "done", !.res = "Ok", !.filled = @ + n]
    ELSE [w EXCEPT !.filled = @ + n, !.armed = w.now]

WaitRead ==
    /\ wait.pc = "read"
    /\ \/ \E n \in 1..(wait.sent - wait.filled) : wait' = wait_read(wait, n)
       \/ /\ wait.sent = wait.filled /\ wait.fin
          /\ wait' = wait_read(wait, 0)
    /\ UNCHANGED but_wait

\* the timeout of the pending read elapses (the map_err of proxy.rs 175 and
\* handler.rs 25)
WaitTimeout ==
    /\ wait.pc = "read"
    /\ wait.sent = wait.filled /\ ~wait.fin
    /\ wait.now = wait.armed + wait.timeout
    /\ wait' = wait_stop(wait, "TimedOut")
    /\ UNCHANGED but_wait

\* a second passes while the read is pending
WaitTick ==
    /\ wait.pc = "read"
    /\ wait.sent = wait.filled /\ ~wait.fin
    /\ wait.now < wait.armed + wait.timeout
    /\ wait.now < MaxClock
    /\ wait' = [wait EXCEPT !.now = @ + 1]
    /\ UNCHANGED but_wait

\* the peer sends the next byte of the frame, or all the rest of it
WaitPeerSends ==
    /\ wait.pc = "read" /\ ~wait.fin
    /\ wait.sent < WaitFrameLen(wait.side)
    /\ \E k \in { 1, WaitFrameLen(wait.side) - wait.sent } :
         wait' = [wait EXCEPT !.sent = @ + k]
    /\ UNCHANGED but_wait

WaitPeerCloses ==
    /\ wait.pc = "read" /\ ~wait.fin
    /\ wait' = [wait EXCEPT !.fin = TRUE]
    /\ UNCHANGED but_wait

NextWait ==
    \/ WaitRead
    \/ WaitTimeout
    \/ WaitTick
    \/ WaitPeerSends
    \/ WaitPeerCloses

\* ------------------------------------------- the dial of the server, by tries

\* connect_with_retry (proxy.rs 201-219) as tunnel_connection calls it
\* (proxy.rs 153), against a server that accepts or fails each attempt.

ServerRetries == 3
RetryDelaySec == 1
MaxDelaySec == 60
MaxRetries == 7

ConnectErrors == { "refused", "timeout" }

\* tries: what each TcpStream::connect returned; sleeps: the seconds of each
\* sleep; attempt, delay: the variables of the function
RetryStart(max_retries) ==
    [pc |-> "connect", res |-> "none", max_retries |-> max_retries,
     attempt |-> 0, delay |-> RetryDelaySec, tries |-> << >>,
     sleeps |-> << >>]

RetryOff == [RetryStart(0) EXCEPT !.pc = "off"]

\* (mutant) the delay is not doubled
next_delay_fixed(delay) == delay

\* proxy.rs 214
next_delay(delay) == Min(delay * 2, MaxDelaySec)

\* proxy.rs 205-211: a connect, and what the match makes of its result
RetryConnect ==
    /\ retry.pc = "connect"
    /\ \E o \in { "ok" } \cup ConnectErrors :
         retry' = [retry EXCEPT
                     !.tries = Append(@, o),
                     !.pc = IF o # "ok" /\ retry.attempt # retry.max_retries
                            THEN "sleep" ELSE "done",
                     !.res = IF o # "ok" /\ retry.attempt # retry.max_retries
                             THEN @ ELSE o]
    /\ UNCHANGED but_retry

\* proxy.rs 212-214 and the next turn of the for loop
RetrySleep ==
    /\ retry.pc = "sleep"
    /\ retry' = [retry EXCEPT !.sleeps = Append(@, retry.delay),
                              !.delay = next_delay(@),
                              !.attempt = @ + 1,
                              !.pc = "connect"]
    /\ UNCHANGED but_retry

NextRetry ==
    \/ RetryConnect
    \/ RetrySleep

\* ---------------------------------------------------- the codec, by calls

\* encode_frame followed by decode_frame on the first `cut` bytes of what it
\* gave, for a codec of each strategy and for each draw of its rng.

Strategies == { "PositionalXorRotate", "RotatingSalt", "SubstitutionTable" }

LongPayloadLen == 258

\* payloads of no, one and two bytes, and one whose length needs both bytes
\* of the header's length field
ShortPayloads == { << >>, << 7 >>, << 1, 2 >> }
LongPayload == [i \in 1..LongPayloadLen |-> i % 256]

\* the padding range of the flows, and a range that is a single length
PaddingRanges == { << PaddingMin, PaddingMax >>, << PaddingMax, PaddingMax >> }

CallCodecs ==
    [st \in Strategies |->
       [r \in PaddingRanges |->
          Codec(Obfuscator(TestKey, TestSalt, st), r[1], r[2])]]

CodecCall(strategy, range, command, payload) ==
    [fn |-> "codec", pc |-> "encode", strategy |-> strategy, range |-> range,
     command |-> command, payload |-> payload, wire |-> << >>, cut |-> 0,
     out |-> [tag |-> "none"]]

CodecCalls ==
    { CodecCall(st, r, c, p) :
        st \in Strategies, r \in PaddingRanges, c \in Commands,
        p \in ShortPayloads }
    \cup { CodecCall(st, << PaddingMin, PaddingMax >>, Data, LongPayload) :
             st \in Strategies }

\* codec.encode_frame(command, payload) with one draw of the rng
CodecEncode ==
    /\ call.fn = "codec" /\ call.pc = "encode"
    /\ \E w \in Encodings(CallCodecs[call.strategy][call.range], Nonces,
                          call.command, call.payload) :
         call' = [call EXCEPT !.pc = "decode", !.wire = w.wire]
    /\ UNCHANGED but_call

\* codec.decode_frame(&wire[..cut])
CodecDecode ==
    /\ call.fn = "codec" /\ call.pc = "decode"
    /\ \E cut \in 0..Len(call.wire) :
         call' = [call EXCEPT
                    !.pc = "done", !.cut = cut,
                    !.out = decode_frame(CallCodecs[call.strategy][call.range],
                                         SubSeq(call.wire, 1, cut))]
    /\ UNCHANGED but_call

NextCodec ==
    \/ CodecEncode
    \/ CodecDecode

\* ----------------------------------------------- the obfuscator, by calls

\* obfs.apply(&mut data, offset) twice on the same buffer, for obfuscators of
\* several keys, salts and every strategy.

ApplyKeys == { << 60 >>, TestKey, << 1, 2, 3, 4, 250 >> }
ApplySalts == { U32(0, 0), TestSalt, U32(65535, 65535) }

\* offsets: none, one whose sums with the indexes pass 2^16 and one whose sums
\* pass 2^32
ApplyOffsets == { U32(0, 0), U32(0, 65534), U32(65535, 65534) }

ApplyBuffers == { << >>, << 0 >>, << 255, 0, 128, 7, 7, 1 >> }

Obfuscators ==
    [k \in ApplyKeys |-> [sa \in ApplySalts |-> [st \in Strategies |->
       Obfuscator(k, sa, st)]]]

ApplyCall(key, salt, strategy, offset, data) ==
    [fn |-> "apply", pc |-> "plain", key |-> key, salt |-> salt,
     strategy |-> strategy, offset |-> offset, data |-> data, buf |-> data]

ApplyCalls ==
    { ApplyCall(k, sa, st, off, d) :
        k \in ApplyKeys, sa \in ApplySalts, st \in Strategies,
        off \in ApplyOffsets, d \in ApplyBuffers }

\* one apply on the buffer: "plain" -> "once" -> "twice"
ApplyStep ==
    /\ call.fn = "apply" /\ call.pc \in { "plain", "once" }
    /\ call' = [call EXCEPT
                  !.pc = IF call.pc = "plain" THEN "once" ELSE "twice",
                  !.buf = apply(Obfuscators[call.key][call.salt][call.strategy],
                                call.buf, call.offset)]
    /\ UNCHANGED but_call

NextApply == ApplyStep

\* ------------------------------------------------ a wrong key, by frames

\* Frames of one codec given to a codec with another key (protocol.rs
\* 299-327): the keys have the same length and differ in one byte, the salt
\* and the strategy are the same, there is no padding.  The key length
\* divides 2^32, so that the nonces 0 .. length - 1 stand for all nonces: with
\* a modifier that does not depend on the key, the key bytes a frame meets
\* depend on the nonce modulo the key length only.

RightKey == << 11, 22, 33, 44, 55, 66, 77, 88 >>

\* RightKey with another byte at position at
KeyDiffering(at) == [RightKey EXCEPT ![at] = 255 - @]

DifferAt == { 1, 6 }

TallyPayloads == { << >>, << 7 >>, << 1, 2, 3 >>, << 1, 2, 3, 4, 5, 6, 7, 8 >> }

TallyCodecs ==
    [st \in Strategies |-> [at \in { 0 } \cup DifferAt |->
       Codec(Obfuscator(IF at = 0 THEN RightKey ELSE KeyDiffering(at),
                        TestSalt, st), 0, 0)]]

TallyCall(strategy, at, payload) ==
    [fn |-> "tally", pc |-> "frames", strategy |-> strategy, at |-> at,
     payload |-> payload, nonce |-> 0, total |-> 0, errors |-> 0]

TallyCalls ==
    { TallyCall(st, at, p) :
        st \in Strategies, at \in DifferAt, p \in TallyPayloads }

\* the match of protocol.rs 312-322: the frame counts as an error unless the
\* other codec decodes it to a frame with the payload that was encoded
tally_error(d, payload) == d.tag # "Some" \/ d.payload # payload

\* one turn of the test's loop (protocol.rs 310-323), with the next nonce
TallyFrame ==
    /\ call.fn = "tally" /\ call.pc = "frames"
    /\ \E wire \in { Wire(TallyCodecs[call.strategy][0], Data, call.payload,
                          U32(0, call.nonce), << >>) } :
       \E d \in { decode_frame(TallyCodecs[call.strategy][call.at], wire) } :
         call' = [call EXCEPT
                    !.total = @ + 1,
                    !.errors = IF tally_error(d, call.payload)
                               THEN @ + 1 ELSE @,
                    !.nonce = @ + 1,
                    !.pc = IF call.nonce + 1 = Len(RightKey)
                           THEN "done" ELSE "frames"]
    /\ UNCHANGED but_call

NextTally == TallyFrame

\* ------------------------------------------- the command byte, by values

CmdKey == << 11, 22, 33 >>

CmdNonces == { U32(0, 0), U32(0, 5), U32(65535, 65535) }

\* the other three header bytes: payload length (two bytes), padding length
CmdLengths == { << 0, 0, 0 >>, << 0, 2, 1 >> }

LastByte == 255

CmdCall(strategy, nonce, lengths) ==
    [fn |-> "cmd", pc |-> "bytes", strategy |-> strategy, nonce |-> nonce,
     lengths |-> lengths, b |-> 0, magic |-> 0, accepted |-> 0,
     agree |-> TRUE, last |-> 0, outs |-> << >>]

CmdCalls ==
    { CmdCall(st, n, l) : st \in Strategies, n \in CmdNonces, l \in CmdLengths }

\* a buffer whose de-obfuscated header carries cmd_byte b: nonce, obfuscated
\* header, and as many zero bytes as the header announces
CmdWire(codec, nonce, lengths, b) ==
    ToBeBytes(nonce) \o apply(codec.obfuscator, lengths \o << b >>, nonce)
        \o [i \in 1 .. (lengths[3] + lengths[1] * 256 + lengths[2]) |-> 0]

\* the lengths at which a buffer is given to decode_frame: nothing, one byte
\* less than nonce and header, nonce and header, everything
CmdCuts(wire) ==
    { 0, NONCE_LEN + HEADER_LEN - 1, NONCE_LEN + HEADER_LEN, Len(wire) }

\* decode_frame on the buffer of the next cmd_byte value, counted; and what
\* decode_frame makes of the first bytes of that buffer
CmdDecode ==
    /\ call.fn = "cmd" /\ call.pc = "bytes"
    /\ \E codec \in { Codec(Obfuscator(CmdKey, TestSalt, call.strategy), 0, 0) } :
       \E d \in { decode_frame(codec, CmdWire(codec, call.nonce, call.lengths,
                                               call.b)) } :
         call' = [call EXCEPT
                    !.magic = IF MagicBits(call.b) = HEADER_MAGIC
                              THEN @ + 1 ELSE @,
                    !.accepted = IF d.tag # "Err" THEN @ + 1 ELSE @,
                    !.agree = @ /\ ((d.tag = "Err") <=> (from_byte(call.b) = 0)),
                    !.last = call.b,
                    !.outs = [cut \in CmdCuts(CmdWire(codec, call.nonce,
                                                      call.lengths, call.b)) |->
                                decode_frame(codec,
                                  SubSeq(CmdWire(codec, call.nonce, call.lengths,
                                                 call.b), 1, cut)).tag],
                    !.b = IF call.b = LastByte THEN @ ELSE @ + 1,
                    !.pc = IF call.b = LastByte THEN "done" ELSE "bytes"]
    /\ UNCHANGED but_call

NextCommand == CmdDecode

\* -------------------------------------------------- the sniffer, by inputs

SniNone == [tag |-> "None"]

\* a panic of the sniffer, with the expression that panics
SniPanic(at) == [tag |-> "panic", at |-> at]

SniSome(name) == [tag |-> "Some", name |-> name]

\* s[i] of the code (counted from 0) lies within s
Ix(s, i) == i >= 0 /\ i < Len(s)

\* &s[a..b] of the code lies within s
Range(s, a, b) == a >= 0 /\ a <= b /\ b <= Len(s)

\* &s[a..b]
Slice(s, a, b) == SubSeq(s, a + 1, b)

\* u16::from_be_bytes([s[i], s[i + 1]])
Be16(s, i) == s[i + 1] * 256 + s[i + 2]

\* String::from_utf8(..).ok()
from_utf8_ok(bytes) == IF Utf8Valid(bytes) THEN SniSome(bytes) ELSE SniNone

\* the loop of parse_sni_extension (sni.rs 106-119), from pos on
RECURSIVE sni_entries(_, _)
sni_entries(data, pos) ==
    IF pos + 3 > Len(data) THEN SniNone
    ELSE IF ~ (Ix(data, pos) /\ Ix(data, pos + 2))
         THEN SniPanic("data[pos + 2]")
    ELSE IF data[pos + 1] = 0 /\ pos + 3 + Be16(data, pos + 1) <= Len(data)
         THEN IF Range(data, pos + 3, pos + 3 + Be16(data, pos + 1))
              THEN from_utf8_ok(Slice(data, pos + 3,
                                      pos + 3 + Be16(data, pos + 1)))
              ELSE SniPanic("data[pos..pos + name_len]")
    ELSE sni_entries(data, pos + 3 + Be16(data, pos + 1))

parse_sni_extension(data) ==
    IF Len(data) < 5 THEN SniNone ELSE sni_entries(data, 2)

\* the loop over the extensions (sni.rs 81-93), from pos on
RECURSIVE sni_extensions(_, _, _)
sni_extensions(ch, pos, ext_end) ==
    IF pos + 4 > ext_end THEN SniNone
    ELSE IF ~ (Ix(ch, pos) /\ Ix(ch, pos + 3)) THEN SniPanic("ch[pos + 3]")
    ELSE IF Be16(ch, pos) = 0
         THEN IF Len(ch) < pos + 4 THEN SniPanic("ch.len() - pos")
              ELSE IF ~ Range(ch, pos + 4,
                              pos + 4 + Min(Be16(ch, pos + 2),
                                            Len(ch) - (pos + 4)))
                   THEN SniPanic("ch[pos..]")
              ELSE parse_sni_extension(
                     Slice(ch, pos + 4,
                           pos + 4 + Min(Be16(ch, pos + 2),
                                         Len(ch) - (pos + 4))))
    ELSE sni_extensions(ch, pos + 4 + Be16(ch, pos + 2), ext_end)

\* sni.rs 77-81: the extensions block at pos
sni_extensions_at(ch, pos) ==
    IF pos + 2 > Len(ch) THEN SniNone
    ELSE IF ~ Ix(ch, pos + 1) THEN SniPanic("ch[pos + 1]")
    ELSE IF Len(ch) < pos + 2 THEN SniPanic("ch.len() - pos")
    ELSE sni_extensions(ch, pos + 2,
                        pos + 2 + Min(Be16(ch, pos), Len(ch) - (pos + 2)))

\* sni.rs 69-74: the compression methods at pos
sni_compression_at(ch, pos) ==
    IF pos + 1 > Len(ch) THEN SniNone
    ELSE IF ~ Ix(ch, pos) THEN SniPanic("ch[pos]")
    ELSE sni_extensions_at(ch, pos + 1 + ch[pos + 1])

\* sni.rs 62-66: the cipher suites at pos
sni_cipher_suites_at(ch, pos) ==
    IF pos + 2 > Len(ch) THEN SniNone
    ELSE IF ~ Ix(ch, pos + 1) THEN SniPanic("ch[pos + 1]")
    ELSE sni_compression_at(ch, pos + 2 + Be16(ch, pos))

\* sni.rs 48-59: the body of the ClientHello
sni_client_hello(ch) ==
    IF Len(ch) < 35 THEN SniNone
    ELSE IF ~ Ix(ch, 34) THEN SniPanic("ch[pos]")
    ELSE sni_cipher_suites_at(ch, 34 + 1 + ch[35])

\* sni.rs 39-46: the handshake header
sni_handshake(hs) ==
    IF Len(hs) = 0 THEN SniNone
    ELSE IF hs[1] # 1 THEN SniNone
    ELSE IF ~ Ix(hs, 1) THEN SniPanic("hs[1]")
    ELSE IF ~ Ix(hs, 2) THEN SniPanic("hs[2]")
    ELSE IF ~ Ix(hs, 3) THEN SniPanic("hs[3]")
    ELSE IF Len(hs) < 4 THEN SniPanic("hs.len() - 4")
    ELSE IF ~ Range(hs, 4, 4 + Min(hs[2] * 65536 + hs[3] * 256 + hs[4],
                                   Len(hs) - 4))
         THEN SniPanic("hs[4..]")
    ELSE sni_client_hello(
           Slice(hs, 4, 4 + Min(hs[2] * 65536 + hs[3] * 256 + hs[4],
                                Len(hs) - 4)))

\* extract_sni (sni.rs 21-96)
extract_sni(buf) ==
    IF Len(buf) < 44 THEN SniNone
    ELSE IF ~ Ix(buf, 0) THEN SniPanic("buf[0]")
    ELSE IF buf[1] # 22 THEN SniNone
    ELSE IF ~ Ix(buf, 4) THEN SniPanic("buf[4]")
    ELSE IF Len(buf) < 5 THEN SniPanic("buf.len() - 5")
    ELSE IF ~ Range(buf, 5, 5 + Min(Be16(buf, 3), Len(buf) - 5))
         THEN SniPanic("buf[5..record_end]")
    ELSE sni_handshake(Slice(buf, 5, 5 + Min(Be16(buf, 3), Len(buf) - 5)))

\* u16::to_be_bytes
Be16Bytes(n) == << n \div 256, n % 256 >>

\* build_test_client_hello (sni.rs 147-193)
build_test_client_hello(host_bytes) ==
    LET sni_ext == Be16Bytes(3 + Len(host_bytes)) \o << 0 >>
                     \o Be16Bytes(Len(host_bytes)) \o host_bytes
        extensions == Be16Bytes(0) \o Be16Bytes(Len(sni_ext)) \o sni_ext
        ch_body == << 3, 3 >> \o [i \in 1 .. 32 |-> 0] \o << 0 >>
                     \o Be16Bytes(2) \o << 0, 255 >> \o << 1, 0 >>
                     \o Be16Bytes(Len(extensions)) \o extensions
        handshake == << 1, 0 >> \o Be16Bytes(Len(ch_body)) \o ch_body
    IN  << 22, 3, 1 >> \o Be16Bytes(Len(handshake)) \o handshake

HostName == << 97, 46, 98 >>

SniHello == build_test_client_hello(HostName)

PeekBufLen == 4096

\* the bytes a corrupted length field is given
SniBytes == { 0, 1, 2, 3, 4, 255 }

\* the inputs of the sniffer: the ClientHello, each of its truncations, the
\* ClientHello with one byte replaced, the ClientHello followed by zeros up
\* to the size of the peek buffer, and something that is not TLS
SniInputs ==
    { SubSeq(SniHello, 1, n) : n \in 0 .. Len(SniHello) }
    \cup { [SniHello EXCEPT ![i] = v] : i \in 1 .. Len(SniHello), v \in SniBytes }
    \cup { SniHello \o [i \in 1 .. (PeekBufLen - Len(SniHello)) |-> 0],
           [i \in 1 .. 44 |-> 71] }
    \cup { build_test_client_hello([i \in 1 .. n |-> 97]) :
             n \in { DomainLenMax, DomainLenMax + 1 } }

SniCall(buf) == [fn |-> "sni", pc |-> "call", buf |-> buf, result |-> SniNone, encode |-> "none", wire |-> << >>]

SniCalls == { SniCall(buf) : buf \in SniInputs }

\* extract_sni on the buffer of the call
SniExtract ==
    /\ call.fn = "sni" /\ call.pc = "call"
    /\ call' = [call EXCEPT !.pc = "done", !.result = extract_sni(call.buf)]
    /\ UNCHANGED but_call

\* the assert of TargetAddr::encode (protocol.rs 87) passes
encode_assert(a) == a.kind = "Domain" => Len(a.host) <= DomainLenMax

\* tunnel_connection builds the target of the Connect from what the sniffer
\* returned and encodes it (proxy.rs 155-162)
SniTarget ==
    /\ call.fn = "sni" /\ call.pc = "done" /\ call.result.tag # "panic"
    /\ \E a \in { connect_target(IF call.result.tag = "Some"
                                  THEN [some |-> TRUE, name |-> call.result.name]
                                  ELSE NoSni, TargetV4) } :
         call' = [call EXCEPT
                    !.pc = "target",
                    !.encode = IF encode_assert(a) THEN "ok" ELSE "panic",
                    !.wire = IF encode_assert(a) THEN TargetAddr_encode(a)
                             ELSE << >>]
    /\ UNCHANGED but_call

NextSni == SniExtract \/ SniTarget

\* ------------------------------------------- the target address, by calls

AddrPorts == { 0, 443, 772, 65535 }

AddrV4Hosts == { << 0, 0, 0, 0 >>, << 127, 0, 0, 1 >>, << 1, 3, 4, 3 >>, << 255, 255, 255, 255 >> }

AddrV6Hosts == { [i \in 1 .. 16 |-> 0], [i \in 1 .. 16 |-> IF i = 16 THEN 1 ELSE 0], [i \in 1 .. 16 |-> 255 - i] }

\* domain names (well-formed UTF-8, as a String is) of 1 to DomainLenMax bytes
AddrDomains ==
    { [i \in 1 .. n |-> 97 + (i % 26)] : n \in { 1, 2, 3, DomainLenMax - 1, DomainLenMax } }
    \cup { << 1 >>, << 3 >>, << 4, 0 >>, << 195, 169 >>, << 120, 226, 130, 172 >> }

AddrInputs ==
    { IpV4(h, p) : h \in AddrV4Hosts, p \in AddrPorts }
    \cup { IpV6(h, p) : h \in AddrV6Hosts, p \in AddrPorts }
    \cup { Domain(d, p) : d \in AddrDomains, p \in AddrPorts }

AddrCall(a) == [fn |-> "addr", pc |-> "addr", addr |-> a, wire |-> << >>, result |-> AddrErr]

AddrCalls == { AddrCall(a) : a \in AddrInputs }

\* TargetAddr::encode on the address of the call
AddrEncode ==
    /\ call.fn = "addr" /\ call.pc = "addr"
    /\ call' = [call EXCEPT !.pc = "wire", !.wire = TargetAddr_encode(call.addr)]
    /\ UNCHANGED but_call

\* TargetAddr::decode on the encoding
AddrDecode ==
    /\ call.fn = "addr" /\ call.pc = "wire"
    /\ call' = [call EXCEPT !.pc = "done", !.result = TargetAddr_decode(call.wire)]
    /\ UNCHANGED but_call

NextAddr == AddrEncode \/ AddrDecode

\* ------------------------------------------------- the router, by calls

\* a & b on two 16-bit words, bit by bit
And16(a, b) ==
    LET S == { i \in 0 .. 15 : Bit(a, i) = 1 /\ Bit(b, i) = 1 }
        RECURSIVE Sum(_)
        Sum(T) == IF T = {} THEN 0
                  ELSE LET i == CHOOSE j \in T : TRUE
                       IN  2 ^ i + Sum(T \ { i })
    IN  Sum(S)

\* u32::from(Ipv4Addr) and u128::from(Ipv6Addr), as 16-bit words from the top
AddrWords(octets) ==
    [k \in 1 .. (Len(octets) \div 2) |-> octets[2 * k - 1] * 256 + octets[2 * k]]

\* the bits of an address of family kind
AddrBits(kind) == IF kind = "V4" THEN 32 ELSE 128

\* !0 << (bits - prefix_len), as 16-bit words from the top
ShiftedOnes(bits, prefix_len) ==
    [k \in 1 .. (bits \div 16) |->
        IF prefix_len >= 16 * k THEN 65535
        ELSE IF prefix_len <= 16 * (k - 1) THEN 0
        ELSE 65536 - 2 ^ (16 * k - prefix_len)]

\* (mutant) the shift alone, which leaves !0 when the shift amount is the
\* width of the word
cidr_mask_unguarded(bits, prefix_len) ==
    IF prefix_len = 0 THEN ShiftedOnes(bits, bits)
    ELSE ShiftedOnes(bits, prefix_len)

\* routing.rs 37 and 45: the mask of a prefix
cidr_mask(bits, prefix_len) ==
    IF prefix_len = 0 THEN [k \in 1 .. (bits \div 16) |-> 0]
    ELSE ShiftedOnes(bits, prefix_len)

AndWords(a, m) == [k \in DOMAIN a |-> And16(a[k], m[k])]

\* a CIDR string after its two parts have been parsed: an address and a
\* prefix length
Cidr(ip, prefix_len) == [ip |-> ip, prefix_len |-> prefix_len]

CidrNone == [some |-> FALSE]

\* CidrRange::parse (routing.rs 29-54)
CidrRange_parse(c) ==
    IF c.prefix_len > AddrBits(c.ip.kind) THEN CidrNone
    ELSE [some |-> TRUE, kind |-> c.ip.kind,
          addr |-> AndWords(AddrWords(c.ip.host),
                            cidr_mask(AddrBits(c.ip.kind), c.prefix_len)),
          mask |-> cidr_mask(AddrBits(c.ip.kind), c.prefix_len)]

\* CidrRange::contains (routing.rs 56-66)
CidrRange_contains(range, ip) ==
    IF range.kind = ip.kind
    THEN AndWords(AddrWords(ip.host), range.mask) = range.addr
    ELSE FALSE

\* an IpAddr: the family and the octets
Ip4(a, b, c, d) == [kind |-> "V4", host |-> << a, b, c, d >>]

Ip6(w) == [kind |-> "V6", host |-> [i \in 1 .. 16 |-> IF i <= Len(w) THEN w[i] ELSE 0]]

CidrBases ==
    { Ip4(91, 108, 56, 0), Ip4(91, 108, 57, 77), Ip4(0, 0, 0, 0),
      Ip6(<< 32, 1, 11, 40, 242, 61 >>), Ip6(<< 32, 1, 11, 40, 242, 61, 0, 9 >>) }

CidrPrefixes == { 0, 1, 8, 16, 17, 22, 31, 32, 33, 48, 64, 127, 128, 129 }

CidrAddrs ==
    { Ip4(91, 108, 57, 3), Ip4(91, 108, 60, 1), Ip4(8, 8, 8, 8),
      Ip4(91, 108, 57, 77), Ip4(219, 108, 56, 0),
      Ip6(<< 32, 1, 11, 40, 242, 61, 0, 0, 0, 0, 0, 0, 0, 0, 0, 1 >>),
      Ip6(<< 32, 1, 11, 40, 242, 62, 0, 0, 0, 0, 0, 0, 0, 0, 0, 1 >>),
      Ip6(<< 32, 1, 11, 40, 242, 61, 0, 9 >>),
      Ip6(<< 91, 108, 56, 0 >>) }

CidrCall(base, prefix_len, ip) ==
    [fn |-> "cidr", pc |-> "parse", cidr |-> Cidr(base, prefix_len), ip |-> ip,
     range |-> CidrNone, contains |-> FALSE]

CidrCalls ==
    { CidrCall(b, pl, ip) : b \in CidrBases, pl \in CidrPrefixes, ip \in CidrAddrs }

\* CidrRange::parse on the range of the call
CidrParse ==
    /\ call.fn = "cidr" /\ call.pc = "parse"
    /\ \E r \in { CidrRange_parse(call.cidr) } :
         call' = [call EXCEPT !.range = r,
                              !.pc = IF r.some THEN "range" ELSE "invalid"]
    /\ UNCHANGED but_call

\* CidrRange::contains on the compiled range and the address of the call
CidrContains ==
    /\ call.fn = "cidr" /\ call.pc = "range"
    /\ call' = [call EXCEPT !.pc = "done",
                            !.contains = CidrRange_contains(call.range, call.ip)]
    /\ UNCHANGED but_call

NextCidr == CidrParse \/ CidrContains

\* str::to_lowercase on ASCII text
to_lowercase(t) == [i \in 1 .. Len(t) |-> IF t[i] >= 65 /\ t[i] <= 90 THEN t[i] + 32 ELSE t[i]]

\* str::to_uppercase on ASCII text
to_uppercase(t) == [i \in 1 .. Len(t) |-> IF t[i] >= 97 /\ t[i] <= 122 THEN t[i] - 32 ELSE t[i]]

\* str::ends_with
ends_with(t, suffix) ==
    Len(suffix) <= Len(t) /\ SubSeq(t, Len(t) - Len(suffix) + 1, Len(t)) = suffix

\* the '*' that starts a wildcard
Star == 42

\* config::RoutingRule
RoutingRule(action, domains, ip_ranges, geoip) ==
    [action |-> action, domains |-> domains, ip_ranges |-> ip_ranges,
     geoip |-> geoip]

\* Action::from_str
Action_from_str(t) == IF t = "proxy" THEN "Proxy" ELSE "Direct"

\* compile_rule (routing.rs 202-233)
compile_rule(rule) ==
    LET lower == [i \in DOMAIN rule.domains |-> to_lowercase(rule.domains[i])]
        IsWildcard(d) == Len(d) > 0 /\ d[1] = Star
        IsExact(d) == ~ IsWildcard(d)
        wild == SelectSeq(lower, IsWildcard)
        parsed == [i \in DOMAIN rule.ip_ranges |-> CidrRange_parse(rule.ip_ranges[i])]
        IsSome(r) == r.some
    IN  [action |-> Action_from_str(rule.action),
         exact_domains |-> SelectSeq(lower, IsExact),
         wildcard_suffixes |-> [i \in DOMAIN wild |-> SubSeqFrom(wild[i], 2)],
         ip_ranges |-> SelectSeq(parsed, IsSome),
         geoip_codes |-> [i \in DOMAIN rule.geoip |-> to_uppercase(rule.geoip[i])]]

\* (mutant) the suffix is compared without its dot
wildcard_matches_undotted(hostname_lower, suffix) ==
    ends_with(hostname_lower, SubSeqFrom(suffix, 2))

\* routing.rs 148: one wildcard suffix against the lowercased host name
wildcard_matches(hostname_lower, suffix) ==
    \/ ends_with(hostname_lower, suffix)
    \/ hostname_lower = SubSeqFrom(suffix, 2)

\* Router::matches_rule (routing.rs 136-173); country is what lookup_country
\* finds for dest_ip
matches_rule(rule, sni, dest_ip, country) ==
    \/ /\ sni.some
       /\ \E hostname_lower \in { to_lowercase(sni.name) } :
            \/ \E i \in DOMAIN rule.exact_domains :
                 hostname_lower = rule.exact_domains[i]
            \/ \E i \in DOMAIN rule.wildcard_suffixes :
                 wildcard_matches(hostname_lower, rule.wildcard_suffixes[i])
    \/ \E i \in DOMAIN rule.ip_ranges :
         CidrRange_contains(rule.ip_ranges[i], dest_ip)
    \/ /\ rule.geoip_codes # << >>
       /\ country.some
       /\ \E i \in DOMAIN rule.geoip_codes :
            to_lowercase(country.name) = to_lowercase(rule.geoip_codes[i])

\* (mutant) the loop goes on after a match, so the last matching rule decides
RECURSIVE resolve_last_match(_, _, _, _, _)
resolve_last_match(router, i, sni, dest_ip, country) ==
    IF i > Len(router.rules) THEN router.default_action
    ELSE IF \A j \in (i + 1) .. Len(router.rules) :
              ~ matches_rule(router.rules[j], sni, dest_ip, country)
         THEN IF matches_rule(router.rules[i], sni, dest_ip, country)
              THEN router.rules[i].action
              ELSE router.default_action
    ELSE resolve_last_match(router, i + 1, sni, dest_ip, country)

\* Router::resolve (routing.rs 127-134), from rule i on
RECURSIVE resolve(_, _, _, _, _)
resolve(router, i, sni, dest_ip, country) ==
    IF i > Len(router.rules) THEN router.default_action
    ELSE IF matches_rule(router.rules[i], sni, dest_ip, country)
         THEN router.rules[i].action
    ELSE resolve(router, i + 1, sni, dest_ip, country)

\* Router::new (routing.rs 92-121)
Router_new(config) ==
    [rules |-> [i \in DOMAIN config.rules |-> compile_rule(config.rules[i])],
     default_action |-> Action_from_str(config.default_action)]

\* host names and rule domains, as ASCII bytes
Text_g_x == << 103, 46, 120 >>
Text_G_X == << 71, 46, 88 >>
Text_m_g_x == << 109, 46, 103, 46, 120 >>
Text_M_g_X == << 77, 46, 103, 46, 88 >>
Text_mg_x == << 109, 103, 46, 120 >>
Text_x == << 120 >>
Text_q_x == << 113, 46, 120 >>
Text_y == << 121 >>
Text_dot_g_x == << 46, 103, 46, 120 >>
Text_RU == << 82, 85 >>
Text_ru == << 114, 117 >>

Wildcard(t) == << Star, 46 >> \o t

RouteSni(name) == [some |-> TRUE, name |-> name]

RouteSnis ==
    { NoSni } \cup { RouteSni(t) : t \in { Text_g_x, Text_G_X, Text_m_g_x, Text_M_g_X, Text_mg_x, Text_x, Text_q_x, Text_y, Text_dot_g_x, << >> } }

RouteAddrs == { Ip4(91, 108, 57, 3), Ip4(8, 8, 8, 8) }

NoCountry == [some |-> FALSE, name |-> << >>]

RouteCountries == { NoCountry, [some |-> TRUE, name |-> Text_RU] }

\* the rules configurations are made of; the later ones overlap the earlier
RouteRules ==
    { RoutingRule("proxy", << Wildcard(Text_g_x) >>, << >>, << >>),
      RoutingRule("direct", << Wildcard(Text_G_X) >>, << >>, << >>),
      RoutingRule("proxy", << Wildcard(Text_x) >>, << >>, << >>),
      RoutingRule("direct", << Text_q_x, Wildcard(Text_x) >>, << >>, << >>),
      RoutingRule("proxy", << >>, << Cidr(Ip4(91, 108, 56, 0), 22), Cidr(Ip4(1, 1, 1, 1), 33) >>, << >>),
      RoutingRule("direct", << >>, << Cidr(Ip4(0, 0, 0, 0), 0) >>, << >>),
      RoutingRule("proxy", << >>, << >>, << Text_ru >>) }

MaxRules == 2

RouteConfigs ==
    { [default_action |-> d, rules |-> r] :
        d \in { "proxy", "direct" },
        r \in UNION { [1 .. n -> RouteRules] : n \in 0 .. MaxRules } }

RouteCall(config, sni, dest_ip, country) ==
    [fn |-> "route", pc |-> "config", config |-> config, sni |-> sni,
     dest_ip |-> dest_ip, country |-> country,
     router |-> [rules |-> << >>, default_action |-> "Direct"],
     action |-> "none"]

RouteCalls ==
    { RouteCall(c, sni, ip, co) :
        c \in RouteConfigs, sni \in RouteSnis, ip \in RouteAddrs,
        co \in RouteCountries }

\* Router::new on the configuration of the call
RouteNew ==
    /\ call.fn = "route" /\ call.pc = "config"
    /\ call' = [call EXCEPT !.pc = "router", !.router = Router_new(call.config)]
    /\ UNCHANGED but_call

\* Router::resolve on the SNI and the address of the call
RouteResolve ==
    /\ call.fn = "route" /\ call.pc = "router"
    /\ call' = [call EXCEPT
                  !.pc = "done",
                  !.action = resolve(call.router, 1, call.sni, call.dest_ip,
                                     call.country)]
    /\ UNCHANGED but_call

NextRoute == RouteNew \/ RouteResolve

\* ------------------------------------------- the keystream, by builds

\* a buffer of zeros, which apply turns into the keystream
KeystreamLen == 6

StreamCall(build, key, salt, strategy, offset) ==
    [fn |-> "stream", pc |-> "call", build |-> build, key |-> key,
     salt |-> salt, strategy |-> strategy, offset |-> offset,
     data |-> [i \in 1 .. KeystreamLen |-> 0], out |-> [tag |-> "none", buf |-> << >>]]

StreamCalls ==
    { StreamCall(b, k, sa, st, off) :
        b \in Builds, k \in ApplyKeys, sa \in ApplySalts, st \in Strategies,
        off \in ApplyOffsets }

\* apply on the zeros, in the build of the call
StreamApply ==
    /\ call.fn = "stream" /\ call.pc = "call"
    /\ call' = [call EXCEPT
                  !.pc = "done",
                  !.out = apply_in(call.build,
                                   Obfuscators[call.key][call.salt][call.strategy],
                                   call.data, call.offset)]
    /\ UNCHANGED but_call

NextStream == StreamApply

\* ------------------------------------------------------------ composition

\* no call of a function
CallOff == [fn |-> "off"]

\* no flow of the handlers
FlowAtRest ==
    /\ cfg = Config(FALSE, FALSE, NoFallback, "Proxy", "Proxy", NoSni, TargetV4,
                    PaddingMin, PaddingMax, Nonces, { })
    /\ net = [a2c |-> Idle, c2a |-> Idle, c2d |-> Idle, d2c |-> Idle,
              c2s |-> Idle, s2c |-> Idle, s2t |-> Idle, t2s |-> Idle]
    /\ srv = SrvInit(FALSE)
    /\ cli = CliInit(FALSE)
    /\ log = EmptyLog

\* a half of the client, or of the server with nothing or with the most the
\* handshake buffer can hold behind the Connect frame
InitRecv ==
    /\ \E stream \in RecvStreams :
         recv \in { RecvStart("client", stream, 0),
                    RecvStart("server", stream, 0),
                    RecvStart("server", stream,
                              Min(StreamLen(stream),
                                  HandshakeBufLen - ConnectFrameLen)) }
    /\ FlowAtRest
    /\ acc = AccOff
    /\ wait = WaitOff
    /\ retry = RetryOff
    /\ call = CallOff

\* the receiving half of a relay against every stream of RecvStreams
SpecRecv == InitRecv /\ [][NextRecv]_vars

InitAccept ==
    /\ acc \in { AccStart("server", n) : n \in 1..MaxConns }
                 \cup { AccStart("client", 0) }
    /\ FlowAtRest
    /\ recv = RecvOff
    /\ wait = WaitOff
    /\ retry = RetryOff
    /\ call = CallOff

\* the acceptor of either program with up to MaxAccepted connections
SpecAccept == InitAccept /\ [][NextAccept]_vars

InitWait ==
    /\ wait \in { WaitStart("client", AckTimeoutSec) }
                  \cup { WaitStart("server", t) : t \in 2..MaxHandshakeTimeout }
    /\ FlowAtRest
    /\ recv = RecvOff
    /\ acc = AccOff
    /\ retry = RetryOff
    /\ call = CallOff

\* the two waits against peers that send the frame at any pace (the server
\* with timeouts of two seconds and more, so that a byte can arrive between
\* the start of a read and its deadline)
SpecWait == InitWait /\ [][NextWait]_vars

InitRetry ==
    /\ retry \in { RetryStart(n) : n \in 0..MaxRetries }
    /\ FlowAtRest
    /\ recv = RecvOff
    /\ acc = AccOff
    /\ wait = WaitOff
    /\ call = CallOff

\* connect_with_retry with every number of retries up to MaxRetries
SpecRetry == InitRetry /\ [][NextRetry]_vars

\* no view of the program but a call
OnlyCall ==
    /\ FlowAtRest
    /\ recv = RecvOff /\ acc = AccOff /\ wait = WaitOff /\ retry = RetryOff

InitCodec == call \in CodecCalls /\ OnlyCall

\* encode_frame and decode_frame on every call of CodecCalls
SpecCodec == InitCodec /\ [][NextCodec]_vars

InitApply == call \in ApplyCalls /\ OnlyCall

\* apply twice on every call of ApplyCalls
SpecApply == InitApply /\ [][NextApply]_vars

InitCommand == call \in CmdCalls /\ OnlyCall

\* decode_frame on every value of the command byte, for every call of CmdCalls
SpecCommand == InitCommand /\ [][NextCommand]_vars

InitSni == call \in SniCalls /\ OnlyCall

\* extract_sni on every input of SniInputs
SpecSni == InitSni /\ [][NextSni]_vars

InitAddr == call \in AddrCalls /\ OnlyCall

\* encode, then decode, on every address of AddrInputs
SpecAddr == InitAddr /\ [][NextAddr]_vars

InitCidr == call \in CidrCalls /\ OnlyCall

\* parse, then contains, on every call of CidrCalls
SpecCidr == InitCidr /\ [][NextCidr]_vars

InitRoute == call \in RouteCalls /\ OnlyCall

\* Router::new, then resolve, on every call of RouteCalls
SpecRoute == InitRoute /\ [][NextRoute]_vars

InitStream == call \in StreamCalls /\ OnlyCall

\* the keystream of every call of StreamCalls
SpecStream == InitStream /\ [][NextStream]_vars

InitTally == call \in TallyCalls /\ OnlyCall

\* the frames of every call of TallyCalls, nonce by nonce
SpecTally == InitTally /\ [][NextTally]_vars

\* a flow of the handlers, with the other views of the program at rest
Apart ==
    /\ recv = RecvOff /\ acc = AccOff /\ wait = WaitOff
    /\ retry = RetryOff /\ call = CallOff

Next ==
    \/ ServerHandshake
    \/ ServerDial
    \/ ServerSendAck
    \/ ServerUpStart
    \/ ServerUpWrite
    \/ ServerUpRead
    \/ ServerDownRead
    \/ ServerDownWrite
    \/ ClientStart
    \/ ClientDirectDial
    \/ ClientServerDial
    \/ ClientSendConnect
    \/ ClientAckRead
    \/ ClientUpRead
    \/ ClientUpWrite
    \/ ClientDownRead
    \/ ClientDownWrite
    \/ ClientSpliceRead
    \/ ClientSpliceWrite
    \/ EnvStops

\* flows of one handler against every kind of peer
Init == (InitServerOnly \/ InitClientOnly) /\ Apart

Spec == Init /\ [][Next]_vars

\* flows of the client handler through the server handler
InitTunnel == InitE2E /\ Apart

SpecE2E == InitTunnel /\ [][Next]_vars


\* -------------------------------------------------------------- properties

IsPrefix(a, b) == Len(a) <= Len(b) /\ SubSeq(b, 1, Len(a)) = a

IsSuffix(a, b) ==
    Len(a) <= Len(b) /\ SubSeq(b, Len(b) - Len(a) + 1, Len(b)) = a

RECURSIVE Flatten(_)
Flatten(ss) == IF ss = << >> THEN << >> ELSE Head(ss) \o Flatten(Tail(ss))

\* The bytes a relay half hands on from a stream of frames: the payloads of
\* its Data frames in order, Connect and ConnectAck frames passed over, up to
\* the first Close frame, incomplete frame or frame that does not decode.
RECURSIVE DataOf(_)
DataOfDecoded(bytes, d) ==
    IF d.tag # "Some" \/ d.command = Close THEN << >>
    ELSE (IF d.command = Data THEN d.payload ELSE << >>)
         \o DataOf(SubSeqFrom(bytes, d.consumed + 1))

DataOf(bytes) ==
    IF bytes = << >> THEN << >>
    ELSE CHOOSE r \in { DataOfDecoded(bytes, d) :
                          d \in { decode_frame(GoodCodec, bytes) } } : TRUE

\* whether the complete frames of a stream include a Close frame
RECURSIVE HasClose(_)
HasCloseDecoded(bytes, d) ==
    IF d.tag # "Some" THEN FALSE
    ELSE d.command = Close \/ HasClose(SubSeqFrom(bytes, d.consumed + 1))

HasClose(bytes) ==
    IF bytes = << >> THEN FALSE
    ELSE CHOOSE r \in { HasCloseDecoded(bytes, d) :
                          d \in { decode_frame(GoodCodec, bytes) } } : TRUE

\* what a half is about to write
Pending(half) == IF half.pc = "write" THEN half.payload ELSE << >>

\* the first frame of everything the server has read from its client
HandshakeDecode == decode_frame(GoodCodec, log.s_read)

\* the bytes the server has read behind the first frame
ServerRelayStream == SubSeqFrom(log.s_read, HandshakeDecode.consumed + 1)

\* the first frame of everything the client has read from its server
AckDecode == decode_frame(GoodCodec, log.c_read)

AckGood ==
    /\ AckDecode.tag = "Some"
    /\ AckDecode.command = ConnectAck
    /\ Len(AckDecode.payload) > 0
    /\ AckDecode.payload[1] = 0

\* the bytes the client's download half has read
ClientRelayStream ==
    SubSeqFrom(log.c_read, AckDecode.consumed + log.c_drop + 1)

IsOutbound(f) == f.command \in { Data, Close }

\* the Data and Close frames a handler has written, in order
Outbound(tx) ==
    LET fs == SelectSeq(tx, IsOutbound)
    IN  [i \in 1..Len(fs) |->
           [command |-> fs[i].command, payload |-> fs[i].payload]]

\* the frame that belongs to a read of the plain socket
FrameOf(chunk) ==
    IF chunk = << >> THEN [command |-> Close, payload |-> << >>]
    ELSE [command |-> Data, payload |-> chunk]

ServerUntouchedTarget ==
    log.s_dial = << >> /\ log.t_reads = << >> /\ net.s2t.data = << >>

\* C1: when the first bytes the server reads fail to decode as a frame, the
\* handler writes the configured fallback response, if there is one, and
\* nothing else, and returns Ok; it never dials a target, never writes a
\* ConnectAck and never relays.
C1_DecodeErrorFallback ==
    HandshakeDecode.tag = "Err" =>
        /\ srv.pc = "done" /\ srv.res = "Ok"
        /\ ServerUntouchedTarget
        /\ log.s_tx = IF cfg.fallback_response.some
                      THEN << [kind |-> "raw", command |-> 0,
                               payload |-> cfg.fallback_response.bytes] >>
                      ELSE << >>

C1_Witness ==
    /\ HandshakeDecode.tag = "Err"
    /\ srv.pc = "done"
    /\ cfg.fallback_response.some
    /\ Len(log.s_tx) = 1

AckIndexes ==
    { i \in 1..Len(log.s_tx) :
        log.s_tx[i].kind = "frame" /\ log.s_tx[i].command = ConnectAck }

\* C2: the server writes a ConnectAck at most once per connection, with
\* status 0, only after the dial of the target has succeeded and before any
\* Data or Close frame; when the target address does not decode or the
\* resolve or dial fails, the handler returns the error and has written
\* nothing to its client.
C2_AckOnceAfterDial ==
    /\ AckIndexes \subseteq { 1 }
    /\ AckIndexes # { } =>
          log.s_tx[1].payload = << 0 >> /\ log.s_dial = << "ok" >>
    /\ Outbound(log.s_tx) # << >> => AckIndexes = { 1 }
    /\ srv.pc = "relay" => AckIndexes = { 1 }
    /\ Len(log.s_dial) <= 1
    /\ (log.s_dial # << >> /\ log.s_dial # << "ok" >>) =>
          /\ srv.pc = "done" /\ srv.res = DialError(log.s_dial[1])
          /\ log.s_tx = << >> /\ log.t_reads = << >> /\ net.s2t.data = << >>
    /\ ( /\ HandshakeDecode.tag = "Some"
         /\ HandshakeDecode.command = Connect
         /\ ~TargetAddr_decode(HandshakeDecode.payload).ok ) =>
          /\ srv.pc = "done" /\ srv.res = "InvalidData"
          /\ log.s_tx = << >> /\ ServerUntouchedTarget

C2_Witness ==
    /\ Len(log.s_tx) >= 2
    /\ log.s_tx[1].command = ConnectAck
    /\ log.s_tx[2].command = Data
    /\ log.s_dial = << "ok" >>

\* C3: when the first frame the server decodes is not a Connect frame, the
\* handler returns InvalidData: it writes nothing to its client, neither a
\* fallback response nor a ConnectAck, dials no target and relays nothing.
C3_FirstFrameMustBeConnect ==
    (HandshakeDecode.tag = "Some" /\ HandshakeDecode.command # Connect) =>
        /\ srv.pc = "done" /\ srv.res = "InvalidData"
        /\ log.s_tx = << >>
        /\ ServerUntouchedTarget

C3_Witness ==
    /\ HandshakeDecode.tag = "Some"
    /\ HandshakeDecode.command = Data
    /\ TargetAddr_decode(HandshakeDecode.payload).ok
    /\ srv.pc = "done"


\* what shows that the client has relayed through its tunnel
ClientRelayed ==
    \/ cli.pc = "relay"
    \/ log.a_reads # << >> \/ log.a_tx # << >>
    \/ Outbound(log.c_tx) # << >>

C4_State ==
    /\ ClientRelayed => AckGood
    /\ AckDecode.tag = "Err" => cli.tunnel = "InvalidData"
    /\ (AckDecode.tag = "Some" /\ AckDecode.command # ConnectAck) =>
          cli.tunnel = "InvalidData"
    /\ (AckDecode.tag = "Some" /\ AckDecode.command = ConnectAck /\ ~AckGood) =>
          cli.tunnel = "ConnectionRefused"
    /\ cli.tunnel = "ConnectionReset" => AckDecode.tag = "None" /\ ~ClientRelayed

\* the read that sees the server's EOF while the client waits for ConnectAck
C4_Step ==
    ( /\ cli.pc = "ack_wait" /\ cli' # cli
      /\ net.s2c.fin = "eof" /\ net.s2c.data = << >> ) =>
        /\ cli'.tunnel = "ConnectionReset"
        /\ cli'.pc \in { "done", "fallback_dial" }

\* C4: the client enters its relay only after it has decoded, as the first
\* frame from the server, a ConnectAck whose payload starts with 0.  Any other
\* first frame fails the tunnel with an error (InvalidData, or
\* ConnectionRefused for a ConnectAck with another payload) and nothing is
\* relayed; when the server closes before a ConnectAck is decoded the tunnel
\* fails with ConnectionReset.
C4_RelayOnlyAfterAck == [] C4_State /\ [][C4_Step]_vars

C4_Witness ==
    /\ cli.pc = "relay" /\ AckGood
    /\ log.a_reads # << >>
    /\ log.a_tx # << >>

\* C5: at every moment of a flow through a client and a server that share
\* the key, the bytes the server has written to the target are a prefix of
\* the bytes the client has read from the application, read by read.
C5_UpstreamPrefix == IsPrefix(net.s2t.data, Flatten(log.a_reads))

C5_Witness ==
    /\ net.s2t.data = AppData
    /\ Len(log.a_reads) = Len(AppData)
    /\ cfg.padding_min = PaddingMax

\* C6: at every moment the bytes the client has written to the application
\* are a prefix of the bytes the server has read from the target, also for
\* Data frames that reach the client in the read that brings the ConnectAck.
C6_DownstreamPrefix == IsPrefix(log.a_tx, Flatten(log.t_reads))

\* C7: the bytes the server has read behind the Connect frame by the time the
\* relay starts are the first contents of the upstream half's buffer, and the
\* frames in them are decoded as if they had been read by the relay: the
\* buffer stays an end of what was read behind the Connect frame, and what
\* was written to the target, what is being written and what the buffer
\* still holds make up the Data payloads of that stream.
C7_LeftoverToRelay ==
    srv.pc = "relay" =>
        /\ srv.up.pc = "start" => srv.up.buf = ServerRelayStream
        /\ IsSuffix(srv.up.buf, ServerRelayStream)
        /\ net.s2t.data \o Pending(srv.up) \o DataOf(srv.up.buf)
             = DataOf(ServerRelayStream)

\* the relay starts with a whole Data frame and a part of the next frame
\* read in the handshake
C7_Witness ==
    /\ srv.pc = "relay" /\ srv.up.pc = "start"
    /\ \E d \in { decode_frame(GoodCodec, srv.up.buf) } :
         /\ d.tag = "Some" /\ d.command = Data
         /\ Len(srv.up.buf) > d.consumed
         /\ decode_frame(GoodCodec,
                         SubSeqFrom(srv.up.buf, d.consumed + 1)).tag = "None"

\* the part of its stream a frames-to-plaintext half has decoded
Consumed(stream, buf) == SubSeq(stream, 1, Len(stream) - Len(buf))

\* what a handler's relay does to its sockets, as the logs show it
SrvIO == << log.s_read, log.s_tx, log.s_dial, log.t_reads, net.s2t.data >>

CliTunnelIO == << log.c_read, log.c_tx, log.a_reads, log.a_tx >>

CliIO ==
    << CliTunnelIO, net.c2a.data, net.c2d.data, Len(net.a2c.data),
       Len(net.d2c.data), Len(net.s2c.data) >>

ClosesIn(tx) == { i \in 1..Len(tx) : tx[i].command = Close }

C8_State ==
    /\ srv.res # "none" =>
          srv.pc = "done" /\ srv.up = HalfIdle /\ srv.down = HalfIdle
    /\ ClosesIn(log.s_tx) # { } => srv.res # "none"
    /\ srv.pc = "relay" =>
          ~HasClose(Consumed(ServerRelayStream, srv.up.buf))
    /\ cli.tunnel # "none" => cli.pc # "relay"
    /\ cli.res # "none" =>
          cli.pc = "done" /\ cli.up = HalfIdle /\ cli.down = HalfIdle
    /\ ClosesIn(log.c_tx) # { } => cli.tunnel # "none"
    /\ cli.pc = "relay" =>
          ~HasClose(Consumed(ClientRelayStream, cli.down.buf))

C8_Step ==
    \* a relay that is over does no further read or write
    /\ srv.res # "none" => SrvIO' = SrvIO
    /\ cli.tunnel # "none" => CliTunnelIO' = CliTunnelIO
    /\ cli.res # "none" => CliIO' = CliIO
    \* a read that brings no byte is an EOF or an error, and ends the relay
    /\ ( /\ srv.pc = "relay" /\ srv.up.pc = "read" /\ srv.up' # srv.up
         /\ log.s_read' = log.s_read ) => srv'.pc = "done"
    /\ ( /\ cli.pc = "relay" /\ cli.down.pc = "read" /\ cli.down' # cli.down
         /\ log.c_read' = log.c_read ) => cli'.pc # "relay"
    /\ ( /\ cli.pc = "splice" /\ cli' # cli
         /\ net.c2a.data' = net.c2a.data /\ net.c2d.data' = net.c2d.data
         /\ Len(net.a2c.data') = Len(net.a2c.data)
         /\ Len(net.d2c.data') = Len(net.d2c.data) ) => cli'.pc = "done"

\* C8: each relay (the direct splice, the client's and the server's
\* obfuscated relay) returns as soon as one of its two directions finishes,
\* by EOF, by a Close frame or by an error, and from then on the other
\* direction reads and writes nothing.
C8_EitherHalfEndsRelay == [] C8_State /\ [][C8_Step]_vars

\* the upstream half decoded a Close frame while the downstream half held a
\* read it never framed
C8_Witness ==
    /\ srv.res = "Ok"
    /\ HandshakeDecode.tag = "Some"
    /\ HasClose(ServerRelayStream)
    /\ Len(log.t_reads) > Len(Outbound(log.s_tx))

\* frames and reads of a plaintext-to-frames half: the i-th frame is the
\* frame of the i-th read, an EOF is the last read, and a read has no frame
\* only while it is being written or when the relay ended before its write
OneFramePerRead(tx, reads, writing, pending, over) ==
    LET fs == Outbound(tx)
        n == Len(fs)
        m == Len(reads)
    IN  /\ n <= m /\ m <= n + 1
        /\ \A i \in 1..n : fs[i] = FrameOf(reads[i])
        /\ \A i \in 1..m : reads[i] = << >> => i = m
        /\ m = n + 1 => over \/ (writing /\ pending = reads[m])
        /\ (n > 0 /\ fs[n].command = Close) => over /\ n = m

\* C9: the plaintext-to-frames half of an obfuscated relay (the client's
\* upload, the server's downstream) writes for each non-empty read exactly
\* one Data frame whose payload is the bytes of that read, and at EOF of the
\* plain socket exactly one Close frame with empty payload, behind all the
\* Data frames and with nothing behind it; the only read without its frame
\* is the last one, while its write is pending or when the relay ended first.
C9_OneFramePerRead ==
    /\ OneFramePerRead(log.s_tx, log.t_reads,
                       srv.pc = "relay" /\ srv.down.pc = "write",
                       srv.down.payload, srv.pc = "done")
    /\ OneFramePerRead(log.c_tx, log.a_reads,
                       cli.pc = "relay" /\ cli.up.pc = "write",
                       cli.up.payload, cli.tunnel # "none")

C9_Witness ==
    /\ log.t_reads = << << 17 >>, << 18 >>, << >> >>
    /\ Len(Outbound(log.s_tx)) = 3
    /\ srv.res = "Ok"

\* the bytes of a stream behind its first Close frame
RECURSIVE BehindClose(_)
BehindCloseDecoded(bytes, d) ==
    IF d.tag # "Some" THEN << >>
    ELSE IF d.command = Close THEN SubSeqFrom(bytes, d.consumed + 1)
    ELSE BehindClose(SubSeqFrom(bytes, d.consumed + 1))

BehindClose(bytes) ==
    IF bytes = << >> THEN << >>
    ELSE CHOOSE r \in { BehindCloseDecoded(bytes, d) :
                          d \in { decode_frame(GoodCodec, bytes) } } : TRUE

\* C10: the frames-to-plaintext half of an obfuscated relay handles the
\* frames in the order of their arrival: the payload of each Data frame is
\* written to the local peer, a Connect or ConnectAck frame is passed over
\* without a write and without ending the relay, and a Close frame ends the
\* relay, so that no payload of a frame behind a Close frame is written.
C10_FramesInOrder ==
    /\ srv.pc = "relay" =>
          /\ net.s2t.data \o Pending(srv.up) \o DataOf(srv.up.buf)
               = DataOf(ServerRelayStream)
          /\ ~HasClose(Consumed(ServerRelayStream, srv.up.buf))
    /\ HandshakeDecode.tag = "Some" =>
          IsPrefix(net.s2t.data, DataOf(ServerRelayStream))
    /\ cli.pc = "relay" =>
          /\ log.a_tx \o Pending(cli.down) \o DataOf(cli.down.buf)
               = DataOf(ClientRelayStream)
          /\ ~HasClose(Consumed(ClientRelayStream, cli.down.buf))
    /\ AckGood => IsPrefix(log.a_tx, DataOf(ClientRelayStream))

\* Data frames around a Connect and a ConnectAck frame were written, the
\* Close frame ended the relay, and the frame read behind it was not written
C10_Witness ==
    /\ srv.pc = "done" /\ srv.res = "Ok"
    /\ net.s2t.data = << 1, 2 >>
    /\ BehindClose(ServerRelayStream) # << >>



\* whether the half has decoded a Close frame
RecvClosed ==
    \E i \in 1..(recv.next - 1) : recv.stream[i].command = Close

\* C11: the frames-to-plaintext half of a relay can receive every well-formed
\* frame, up to the largest of 65798 bytes: whenever the half reads, its
\* buffer has room for more bytes of the frame it waits for, and the half
\* ends only at the peer's EOF or at a Close frame, so that the relay neither
\* stalls nor ends for want of room.
C11_ReceiveBufferHasRoom ==
    /\ recv.pc = "read" => recv_filled(recv) < RelayBufLen
    /\ recv.pc = "done" =>
          \/ RecvClosed
          \/ recv.fin /\ recv.taken = StreamLen(recv.stream)

\* the direct connections the client handler has tried to open
DirectDials == { i \in 1..Len(log.c_dial) : log.c_dial[i][1] = "direct" }

TunnelFailed == cli.tunnel \notin { "none", "Ok" }

\* C12: for a flow routed Proxy, a direct connection to the original
\* destination is opened if and only if the tunnel attempt returned an error
\* and on_server_down is Direct; with on_server_down Proxy no direct
\* connection is opened and the tunnel's error is the result of the flow.
C12_FallbackPolicy ==
    cfg.route = "Proxy" =>
        /\ DirectDials # { } => TunnelFailed /\ cfg.on_server_down = "Direct"
        /\ (TunnelFailed /\ cfg.on_server_down = "Direct") =>
              cli.pc = "fallback_dial" \/ Cardinality(DirectDials) = 1
        /\ cli.pc = "fallback_dial" => DirectDials = { }
        /\ cli.pc = "splice" => DirectDials # { }
        /\ cfg.on_server_down = "Proxy" =>
              /\ DirectDials = { }
              /\ TunnelFailed => cli.pc = "done" /\ cli.res = cli.tunnel

C12_Witness ==
    /\ cfg.route = "Proxy" /\ cfg.on_server_down = "Direct"
    /\ cli.tunnel = "InvalidData"
    /\ cli.pc = "splice"
    /\ log.c_dial = << << "server", "ok" >>, << "direct", "ok" >> >>

\* C13: whenever the client falls back from a failed tunnel to a direct
\* connection, the tunnel has read no byte of the application's stream, has
\* sent no Data or Close frame and has written no byte to the application, so
\* that the original destination gets the stream from its first byte.
C13_TransparentFallback ==
    (cfg.route = "Proxy" /\ (cli.pc = "fallback_dial" \/ DirectDials # { })) =>
        /\ log.a_reads = << >>
        /\ Outbound(log.c_tx) = << >>
        /\ log.a_tx = << >>

\* the handshake buffer was filled by bytes that are no whole frame yet
HandshakeBufferFull ==
    /\ Len(log.s_read) >= HandshakeBufLen
    /\ decode_frame(GoodCodec, SubSeq(log.s_read, 1, HandshakeBufLen)).tag = "None"

\* C14: when the undecoded bytes have filled the handshake buffer and the peer
\* is still connected, the handler ends by sending the fallback response (if
\* one is configured) and returning Ok; it reports neither that the client
\* closed nor a handshake timeout.
C14_FullBufferFallback ==
    (HandshakeBufferFull /\ srv.pc = "done" /\ net.c2s.fin = "open") =>
        /\ srv.res = "Ok"
        /\ cfg.fallback_response.some =>
              log.s_tx = << [kind |-> "raw", command |-> 0,
                             payload |-> cfg.fallback_response.bytes] >>

\* C15: with no fallback response configured, the server has written nothing
\* to the client on a flow whose target connection was not established,
\* however the flow went: decode error, first frame not Connect, bad address,
\* failed resolution or dial, handshake timeout, or the peer's EOF.
C15_SilentWithoutFallback ==
    (cfg.server_on /\ ~cfg.fallback_response.some
       /\ \A i \in DOMAIN log.s_dial : log.s_dial[i] # "ok") =>
        /\ log.s_tx = << >>
        /\ net.s2c.data = << >>

C15_Witness ==
    /\ ~cfg.fallback_response.some
    /\ srv.pc = "done" /\ srv.res = "Ok"
    /\ log.s_read # << >> /\ log.s_dial = << >>
    /\ decode_frame(GoodCodec, log.s_read).tag = "Err"
    /\ log.s_tx = << >>

\* the flows of the server that are in handle_client
AccRunning == TasksIn(acc, { "running" })

\* C16 (as stated): the server never runs more than max_connections handlers,
\* and a connection that was accepted while max_connections handlers were
\* running is closed without a byte read from it or written to it.
C16_LimitAtAccept ==
    acc.side = "server" =>
        /\ Cardinality(AccRunning) <= acc.max_conns
        /\ \A i \in DOMAIN acc.tasks :
             acc.tasks[i].at_limit =>
                 /\ acc.tasks[i].st \in { "spawned", "rejected", "dropped" }
                 /\ ~acc.tasks[i].io

C16_State ==
    acc.side = "server" =>
        /\ Cardinality(AccRunning) <= acc.max_conns
        /\ acc.permits = acc.max_conns - Cardinality(AccRunning)
        /\ \A i \in TasksIn(acc, { "rejected" }) : ~acc.tasks[i].io

C16_Step ==
    acc.side = "server" =>
        \A i \in TasksIn(acc, { "spawned" }) :
            acc'.tasks[i].st \in { "running", "rejected" } =>
                /\ acc'.tasks[i].st = "rejected"
                     <=> Cardinality(AccRunning) = acc.max_conns
                /\ \A j \in DOMAIN acc.tasks \ { i } :
                     acc'.tasks[j] = acc.tasks[j]

\* C16 (amended): the server never runs more than max_connections handlers;
\* the task of a connection is admitted or rejected when it is first polled:
\* it is rejected exactly if max_connections handlers are running at that
\* moment, a rejected connection is closed without a byte read from it or
\* written to it, and the decision leaves every other flow as it is.
C16_AdmissionLimit == [] C16_State /\ [][C16_Step]_vars

C16_Witness ==
    /\ acc.side = "server"
    /\ Cardinality(AccRunning) = acc.max_conns
    /\ \E i \in TasksIn(acc, { "rejected" }) :
         /\ acc.tasks[i].at_limit
         /\ \E j \in AccRunning : j > i

\* C17: once the shutdown signal is taken no connection is accepted any more,
\* and no flow that is in its handler is cancelled: every flow in flight ends
\* by its own return.
C17_GracefulShutdown ==
    acc.signal =>
        \A i \in DOMAIN acc.tasks :
            ~acc.tasks[i].late /\ acc.tasks[i].st # "cancelled"

C18_State == acc.pc = "run" => acc.listening

C18_Step ==
    \A i \in AccRunning :
        acc'.tasks[i].st = "err" =>
            /\ acc'.listening = acc.listening
            /\ acc'.pc = acc.pc
            /\ \A j \in DOMAIN acc.tasks \ { i } : acc'.tasks[j] = acc.tasks[j]

\* C18: a handler that returns an error, on the server or on the client,
\* leaves the accept loop and every other flow as they are: the acceptor
\* listens as long as main has neither taken a signal nor failed to accept.
C18_FlowErrorsContained == [] C18_State /\ [][C18_Step]_vars

C18_Witness ==
    /\ acc.pc = "run" /\ acc.listening
    /\ \E i \in AccRunning :
         /\ acc.tasks[i].after_err /\ acc.tasks[i].io
         /\ \E j \in TasksIn(acc, { "err" }) : j < i

\* C19: the client waits at most AckTimeoutSec seconds for the ConnectAck:
\* the wait never lasts longer, and it ends with a timeout if the frame is
\* not complete by then and the server has not closed.
C19_AckWaitBounded ==
    wait.side = "client" =>
        /\ wait.now <= AckTimeoutSec
        /\ (wait.pc = "done" /\ ~wait.fin
              /\ wait.filled < WaitFrameLen(wait.side)) =>
                wait.res = "TimedOut"

\* C20: the server waits at most the configured timeout for the Connect
\* frame: the handshake never lasts longer, and a peer that has not completed
\* the frame by then is dropped with a timeout and gives up its permit.
C20_HandshakeBounded ==
    wait.side = "server" =>
        /\ wait.now <= wait.timeout
        /\ (wait.pc = "done" /\ ~wait.fin
              /\ wait.filled < WaitFrameLen(wait.side)) =>
                wait.res = "TimedOut" /\ ~wait.slot

\* the seconds connect_with_retry sleeps before its retries when it is given
\* ServerRetries of them
ServerSleeps == << 1, 2, 4 >>

\* C21: the dial of the server makes at most ServerRetries + 1 attempts and
\* returns with the first that connects; it sleeps 1, 2 and 4 seconds before
\* the first, second and third retry (never more than MaxDelaySec), and after
\* the last failed attempt it returns that attempt's error without another
\* sleep.
C21_BoundedBackoff ==
    /\ \A i \in DOMAIN retry.sleeps : retry.sleeps[i] <= MaxDelaySec
    /\ \A i \in DOMAIN retry.tries :
         retry.tries[i] = "ok" => i = Len(retry.tries) /\ retry.pc = "done"
    /\ Len(retry.sleeps) =
         IF retry.pc \in { "sleep", "done" } THEN Len(retry.tries) - 1
         ELSE Len(retry.tries)
    /\ retry.pc = "done" =>
         /\ retry.res = retry.tries[Len(retry.tries)]
         /\ retry.res # "ok" => Len(retry.tries) = retry.max_retries + 1
    /\ retry.max_retries = ServerRetries =>
         /\ Len(retry.tries) <= ServerRetries + 1
         /\ IsPrefix(retry.sleeps, ServerSleeps)

C21_Witness ==
    /\ retry.max_retries = ServerRetries
    /\ retry.pc = "done" /\ retry.res = "timeout"
    /\ retry.tries = << "refused", "timeout", "refused", "timeout" >>
    /\ retry.sleeps = ServerSleeps

\* C22: a client flow whose original destination is an address of the
\* gateway itself on the listen port is dropped at once: the handler has
\* peeked at nothing and read nothing from the application, has dialled
\* neither the destination nor the server, has sent nothing, and returns Ok.
C22_LoopDropped ==
    (cfg.client_on /\ cfg.orig_dst = OwnPort) =>
        /\ cli.pc \in { "start", "done" }
        /\ cli.pc = "done" => cli.res = "Ok"
        /\ log.c_dial = << >>
        /\ log.c_tx = << >>
        /\ log.a_reads = << >> /\ log.a_tx = << >>
        /\ net.c2d.data = << >>

C22_Witness ==
    /\ cfg.client_on /\ cfg.orig_dst = OwnPort /\ cfg.route = "Proxy"
    /\ cli.pc = "done" /\ cli.res = "Ok"
    /\ net.a2c.data = AppData
    /\ log.c_dial = << >>

\* C23: the first frame the client sends on the tunnel is a Connect frame
\* whose payload is the encoding of Domain(sni, port of the original
\* destination) if the sniffer found a name and of the original destination
\* otherwise (and decodes to it), and no frame after it is a Connect frame.
C23_ConnectFirstAndOnce ==
    (cfg.client_on /\ log.c_tx # << >>) =>
        LET want == IF cfg.sni.some
                    THEN Domain(cfg.sni.name, cfg.orig_dst.port)
                    ELSE cfg.orig_dst
        IN  /\ cfg.route = "Proxy"
            /\ log.c_tx[1].command = Connect
            /\ log.c_tx[1].payload = TargetAddr_encode(want)
            /\ TargetAddr_decode(log.c_tx[1].payload).ok
            /\ TargetAddr_decode(log.c_tx[1].payload).addr = want
            /\ \A i \in 2..Len(log.c_tx) : log.c_tx[i].command # Connect

C23_Witness ==
    /\ cfg.client_on /\ cfg.sni.some
    /\ Len(log.c_tx) >= 2
    /\ log.c_tx[1].command = Connect
    /\ TargetAddr_decode(log.c_tx[1].payload).addr.kind = "Domain"
    /\ log.c_tx[2].command = Data

\* C24: decode_frame on the whole output of encode_frame, with the same
\* codec, gives a frame with the command and the payload that were encoded
\* and consumes every byte, whatever nonce (also one that makes the payload
\* offset wrap) and padding the encoder drew.
C24_FrameRoundTrip ==
    (call.fn = "codec" /\ call.pc = "done" /\ call.cut = Len(call.wire)) =>
        /\ call.out.tag = "Some"
        /\ call.out.command = call.command
        /\ call.out.payload = call.payload
        /\ call.out.consumed = Len(call.wire)

C24_Witness ==
    /\ call.fn = "codec" /\ call.pc = "done" /\ call.cut = Len(call.wire)
    /\ call.payload = LongPayload
    /\ call.strategy = "SubstitutionTable"
    /\ SubSeq(call.wire, 1, NONCE_LEN) = << 255, 255, 255, 254 >>
    /\ Len(call.wire) = NONCE_LEN + HEADER_LEN + PaddingMax + LongPayloadLen
    /\ call.out.tag = "Some"

\* C25: decode_frame on a strict prefix of an encoded frame answers that it
\* needs more bytes: it gives neither an error nor a frame.
C25_PrefixNeedsMore ==
    (call.fn = "codec" /\ call.pc = "done" /\ call.cut < Len(call.wire)) =>
        call.out.tag = "None"

C25_Witness ==
    /\ call.fn = "codec" /\ call.pc = "done"
    /\ call.cut = Len(call.wire) - 1
    /\ call.cut > NONCE_LEN + HEADER_LEN
    /\ call.out.tag = "None"

\* C26: apply is an involution: two applications with the same offset leave
\* the buffer as it was, for every key, salt, strategy, offset and buffer.
C26_ApplyInvolution ==
    (call.fn = "apply" /\ call.pc = "twice") => call.buf = call.data

C26_Witness ==
    /\ call.fn = "apply" /\ call.pc = "twice"
    /\ call.strategy = "SubstitutionTable"
    /\ call.offset = U32(65535, 65534)
    /\ Len(call.key) > 1
    /\ Len(call.data) > 1
    /\ call.buf = call.data

\* C27: of the frames a codec makes of a payload, at least nine in ten are
\* not decoded to a frame with that payload by a codec of the same salt and
\* strategy whose key differs in a byte.
C27_WrongKeyRejected ==
    (call.fn = "tally" /\ call.pc = "done") =>
        10 * call.errors >= 9 * call.total

\* C28 (as stated): of the 256 values of the command byte 32 carry the magic
\* and 16 are accepted by decode_frame
C28_HalfAccepted ==
    (call.fn = "cmd" /\ call.pc = "done") =>
        (call.magic = 32 /\ call.accepted = 16)

\* C28 (amended): of the 256 values of the de-obfuscated command byte 32
\* carry the magic 0b101 and 4 of those, the four commands, are accepted by
\* decode_frame; every other value makes decode_frame fail
C28_FourAccepted ==
    (call.fn = "cmd" /\ call.pc = "done") =>
        (call.magic = 32 /\ call.accepted = Cardinality(Commands)
         /\ call.accepted = 4 /\ call.agree)

C28_Witness ==
    call.fn = "cmd" /\ call.pc = "done" /\ call.accepted > 0

\* C29: extract_sni does not panic: every index and slice it takes lies within
\* its input, and no length subtraction underflows
C29_SnifferNeverPanics ==
    (call.fn = "sni" /\ call.pc = "done") => call.result.tag # "panic"

\* the length of the encoding of an address: 7, 19, or 4 + domain length
EncodedLen(a) ==
    CASE a.kind = "V4" -> 7
      [] a.kind = "V6" -> 19
      [] a.kind = "Domain" -> 4 + Len(a.host)

\* C30: decode(encode(a)) returns an address equal to a and a consumed count
\* equal to the length of the encoding (7 for IPv4, 19 for IPv6, 4 + domain
\* length for a domain of 1..255 bytes)
C30_AddrRoundTrip ==
    (call.fn = "addr" /\ call.pc = "done") =>
        /\ call.result.ok
        /\ call.result.addr = call.addr
        /\ call.result.consumed = Len(call.wire)
        /\ Len(call.wire) = EncodedLen(call.addr)

C30_Witness ==
    /\ call.fn = "addr" /\ call.pc = "done"
    /\ call.addr.kind = "Domain" /\ Len(call.addr.host) = DomainLenMax
    /\ call.addr.port = 443
    /\ call.result.ok

\* C31: the server handler never resolves or dials a domain address with an
\* empty host name (TargetAddr::decode rejects a length byte of 0)
C31_NoEmptyDomain ==
    srv.pc = "dial" =>
        ~ (srv.addr.kind = "Domain" /\ srv.addr.host = << >>)

\* bit i of an address, counted from the top
TopBit(ip, i) == Bit(ip.host[i \div 8 + 1], 7 - (i % 8))

\* C34: a compiled CIDR base/p contains an address exactly when the address
\* is of the family of base and its top p bits are those of base; so prefix 0
\* contains every address of the family and nothing of the other family
C34_CidrContains ==
    (call.fn = "cidr" /\ call.pc = "done") =>
        (call.contains <=>
            /\ call.ip.kind = call.cidr.ip.kind
            /\ \A i \in 0 .. (call.cidr.prefix_len - 1) :
                 TopBit(call.ip, i) = TopBit(call.cidr.ip, i))

C34_Witness ==
    /\ call.fn = "cidr" /\ call.pc = "done"
    /\ call.cidr.prefix_len = 22 /\ call.cidr.ip = Ip4(91, 108, 57, 77)
    /\ call.ip = Ip4(91, 108, 57, 3) /\ call.contains

\* the rules of the router of the call that match the call
RouteMatching ==
    { i \in DOMAIN call.router.rules :
        matches_rule(call.router.rules[i], call.sni, call.dest_ip, call.country) }

\* C32: resolve returns the action of the first rule, in declared order, that
\* matches, whatever later rules match, and default_action exactly when no
\* rule matches
C32_FirstMatchWins ==
    (call.fn = "route" /\ call.pc = "done") =>
        IF RouteMatching = {}
        THEN call.action = Action_from_str(call.config.default_action)
        ELSE \E i \in RouteMatching :
               /\ \A j \in RouteMatching : i <= j
               /\ call.action = Action_from_str(call.config.rules[i].action)

\* two rules with different actions match, and the first one decided
C32_Witness ==
    /\ call.fn = "route" /\ call.pc = "done"
    /\ RouteMatching = { 1, 2 }
    /\ call.router.rules[1].action # call.router.rules[2].action
    /\ call.action = call.router.rules[1].action
    /\ call.action # call.router.default_action

\* the configuration of the call has one rule, which holds the wildcard
\* "*." \o x and nothing else, and another action than the default
OnlyWildcard(x) ==
    /\ Len(call.config.rules) = 1
    /\ call.config.rules[1].domains = << Wildcard(x) >>
    /\ call.config.rules[1].ip_ranges = << >>
    /\ call.config.rules[1].geoip = << >>
    /\ call.config.rules[1].action # call.config.default_action

\* C33: a rule holding the wildcard "*.X" matches an SNI, compared without
\* regard to case, exactly when the SNI is X or ends with ".X"; an SNI that
\* ends with X without the dot, and no SNI, do not match
C33_WildcardMatch ==
    \A x \in { Text_g_x, Text_G_X, Text_x } :
        (call.fn = "route" /\ call.pc = "done" /\ OnlyWildcard(x)) =>
            ( (call.action = Action_from_str(call.config.rules[1].action))
              <=> /\ call.sni.some
                  /\ \/ to_lowercase(call.sni.name) = to_lowercase(x)
                     \/ ends_with(to_lowercase(call.sni.name),
                                  << 46 >> \o to_lowercase(x)) )

\* the bare domain, in another case than the rule's, matched
C33_Witness ==
    /\ call.fn = "route" /\ call.pc = "done" /\ OnlyWildcard(Text_G_X)
    /\ call.sni = RouteSni(Text_g_x)
    /\ call.action = "Direct"

\* C35: every admitted flow of the server gives its slot back when its
\* handler ends, with Ok or with an error: the free slots and the running
\* flows add up to max_connections, and with no flow running every slot is
\* free, so that max_connections new flows can be admitted
C35_SlotsReturned ==
    acc.side = "server" =>
        /\ acc.permits + Cardinality(AccRunning) = acc.max_conns
        /\ (AccRunning = { } => acc.permits = acc.max_conns)
        /\ (Cardinality(AccRunning) < acc.max_conns => try_acquire(acc.permits))

\* max_connections flows have ended, one of them with an error, and a later
\* flow has been admitted
C35_Witness ==
    /\ acc.side = "server" /\ acc.max_conns = MaxConns /\ acc.pc = "run"
    /\ acc.tasks[1].st = "err" /\ acc.tasks[2].st = "ok"
    /\ acc.tasks[1].io /\ acc.tasks[2].io
    /\ acc.tasks[MaxAccepted].st = "running"

\* C36: for every host name the sniffer returns, the Domain address the
\* client handler passes to TargetAddr::encode is at most 255 bytes long, so
\* that the encoder does not panic
C36_TargetEncodes ==
    (call.fn = "sni" /\ call.pc = "target") => call.encode # "panic"

\* C37: a flow whose original destination is a remote host, on the port
\* number of listen_port, is not dropped by the loop guard: its handler does
\* not return Ok without having dialled anything
C37_RemoteNotDropped ==
    (cfg.client_on /\ cfg.orig_dst.port = cfg.listen_port
       /\ cfg.orig_dst.host \notin LocalAddrs) =>
        ~ (cli.pc = "done" /\ cli.res = "Ok" /\ log.c_dial = << >>)

\* the command byte b has other upper three bits than 0b101, or a command
\* outside 1..4
BadCommandByte(b) == b \div 32 # 5 \/ (b % 32) \notin 1 .. 4

\* C38: decode_frame gives an error exactly when the buffer holds at least
\* 8 bytes and the de-obfuscated command byte is bad, also when the padding
\* and the payload the header announces have not arrived; with fewer than 8
\* bytes it answers that it needs more bytes
C38_ErrorExactly ==
    call.fn = "cmd" =>
        \A cut \in DOMAIN call.outs :
            /\ (call.outs[cut] = "Err")
                 <=> (cut >= 8 /\ BadCommandByte(call.last))
            /\ cut < 8 => call.outs[cut] = "None"

\* a bad command byte in a buffer that ends behind the header, where the
\* header announces padding and payload
C38_Witness ==
    /\ call.fn = "cmd" /\ call.lengths = << 0, 2, 1 >>
    /\ call.last = 165 /\ DOMAIN call.outs # { }
    /\ call.outs[8] = "Err" /\ call.outs[7] = "None"

\* (i + offset) mod m from the exact sum, for an offset [hi, lo] and a small m
ExactMod(i, offset, m) == (((offset.hi % m) * (65536 % m)) + offset.lo + i) % m

\* C39: in every build, apply xors byte i with K[(i + offset) mod |K|] xor
\* M(i + offset), computed from the exact sum i + offset, also where that sum
\* is 2^32 or more: the keystream is that of a 64-bit endpoint
C39_ExactKeystream ==
    (call.fn = "stream" /\ call.pc = "done") =>
        /\ call.out.tag = "ok"
        /\ \A i \in 1 .. KeystreamLen :
             call.out.buf[i] =
               Xor8(call.key[ExactMod(i - 1, call.offset, Len(call.key)) + 1],
                    modifier(Obfuscators[call.key][call.salt][call.strategy],
                             IndexSum(i - 1, call.offset)))

====
